---- MODULE Spec2Model ----
(***************************************************************************)
(* Verification model of the weighted-graph algorithm library:             *)
(* IndexMinPQ, UnionFind, DijkstraSP, AcyclicSP, BellmanFord,              *)
(* KruskalMST, LazyPrimMST, PrimMST and FordFulkerson.                     *)
(*                                                                         *)
(* Every object of the library is one record-valued variable whose fields  *)
(* carry the names of the Python attributes (without the leading           *)
(* underscore).  Every method is an operator from the record before the    *)
(* call to the record after it; the actions apply these operators.         *)
(* Weights, keys and capacities are integers (exactly representable        *)
(* floats); float('inf') is the constant Inf with  inf + w = inf.          *)
(***************************************************************************)
EXTENDS Integers, Sequences, FiniteSets, TLC

VARIABLES
    op,        \* name of the last operation / position of the running constructor
    args,      \* arguments of the last operation
    ret,       \* value returned by the last operation
    pqueue,    \* an IndexMinPQ object                    (utils/index_min_pq.py)
    uf,        \* a UnionFind object                      (utils/union_find.py)
    graph,     \* the input graph: [n, edges]             (edge_weighted_digraph.py)
    source,    \* source vertex given to the constructor
    target,    \* target vertex given to FordFulkerson
    sp,        \* a DijkstraSP / AcyclicSP / BellmanFord object
    mst,       \* KruskalMST, LazyPrimMST and PrimMST objects
    ff         \* a FordFulkerson object with the flows of the network's edges

vars == <<op, args, ret, pqueue, uf, graph, source, target, sp, mst, ff>>

\* Placeholder for an object the specification at hand does not construct.
Unused == <<>>

------------------------------------------------------------------------------
(* Bounds of the model *)

\* capacity max_n of the stand-alone IndexMinPQ
MaxN == 4
\* keys of the stand-alone IndexMinPQ are drawn from 0..MaxKey
MaxKey == 3

(* Program constants *)

\* Python's None in an integer-valued slot (a key, a heap slot, an edge or a
\* vertex reference)
None == -1000
\* qp[i] of an index that is not in the queue
NotInQueue == -1
\* float('inf')
Inf == 1000

------------------------------------------------------------------------------
(* Generic helpers *)

Min(a, b) == IF a < b THEN a ELSE b

\* float addition with an infinite operand: inf + w = inf
Add(a, b) == IF a = Inf \/ b = Inf THEN Inf ELSE a + b

RECURSIVE SumSeq(_)
SumSeq(s) == IF s = <<>> THEN 0 ELSE Head(s) + SumSeq(Tail(s))

Reverse(s) == [k \in 1..Len(s) |-> s[Len(s) + 1 - k]]

RemoveAt(s, k) == SubSeq(s, 1, k - 1) \o SubSeq(s, k + 1, Len(s))

------------------------------------------------------------------------------
(* IndexMinPQ  (minimum_spanning_tree/utils/index_min_pq.py) *)

\* IndexMinPQ.__init__
PQNew(max_n) ==
    [keys |-> [k \in 0..max_n |-> None],
     pq   |-> [k \in 0..max_n |-> None],
     qp   |-> [k \in 0..max_n |-> NotInQueue],
     n    |-> 0]

\* IndexMinPQ.contains
PQContains(q, i) == q.qp[i] # NotInQueue

\* IndexMinPQ._greater
PQGreater(q, i, j) == q.keys[q.pq[i]] > q.keys[q.pq[j]]

\* mutant of PQExchange: the heap array is swapped, the position table is
\* left as it was
PQExchangeHeapOnly(q, i, j) ==
    [q EXCEPT !.pq = [q.pq EXCEPT ![i] = q.pq[j], ![j] = q.pq[i]]]

\* IndexMinPQ._exchange
PQExchange(q, i, j) ==
    LET pq2 == [q.pq EXCEPT ![i] = q.pq[j], ![j] = q.pq[i]]
        qp2 == [q.qp EXCEPT ![pq2[i]] = i, ![pq2[j]] = j]
    IN  [q EXCEPT !.pq = pq2, !.qp = qp2]

\* IndexMinPQ._swim
RECURSIVE PQSwim(_, _)
PQSwim(q, k) ==
    IF k > 1 /\ PQGreater(q, k \div 2, k)
    THEN PQSwim(PQExchange(q, k, k \div 2), k \div 2)
    ELSE q

\* mutant of PQSinkChild: always the first child
PQSinkChildFirst(q, k) == 2 * k

\* the child chosen by one round of IndexMinPQ._sink
PQSinkChild(q, k) ==
    IF 2 * k < q.n /\ PQGreater(q, 2 * k, 2 * k + 1) THEN 2 * k + 1 ELSE 2 * k

\* IndexMinPQ._sink
RECURSIVE PQSink(_, _)
PQSink(q, k) ==
    IF 2 * k <= q.n
    THEN LET j == PQSinkChild(q, k)
         IN  IF PQGreater(q, j, k) THEN q
             ELSE PQSink(PQExchange(q, k, j), j)
    ELSE q

\* IndexMinPQ.insert
PQInsert(q, i, key) ==
    LET n2 == q.n + 1
        q2 == [q EXCEPT !.n = n2, !.pq[n2] = i, !.qp[i] = n2, !.keys[i] = key]
    IN  PQSwim(q2, n2)

\* IndexMinPQ.del_min: the index returned (the heap is not empty)
PQMinIndex(q) == q.pq[1]

\* IndexMinPQ.del_min: the queue after the call (the heap is not empty)
PQDelMin(q) ==
    LET q1 == PQExchange(q, 1, q.n)
        q2 == [q1 EXCEPT !.n = q1.n - 1]
        q3 == PQSink(q2, 1)
        last == q3.pq[q3.n + 1]
    IN  [q3 EXCEPT !.keys[last] = None, !.qp[last] = NotInQueue]

\* IndexMinPQ.decrease_key with key < keys[i]
PQDecreaseKey(q, i, key) ==
    PQSwim([q EXCEPT !.keys[i] = key], q.qp[i])

\* IndexMinPQ.__bool__
PQNonEmpty(q) == q.n # 0

\* max_n of the constructor: the arrays have max_n + 1 slots
PQCapacity(q) == Cardinality(DOMAIN q.pq) - 1

\* insert, lines 78-81: self._pq[self._n] is out of range, IndexError
PQInsertRaises(q) == q.n + 1 > PQCapacity(q)

\* del_min, lines 100-101: HeapEmptyError is raised
PQDelMinRaises(q) == q.n = 0

\* decrease_key, lines 133 and 139-140: ValueError is raised
PQDecreaseKeyRaises(q, i, key) == ~(key < q.keys[i])

\* what a call raised, as the value of ret: ValueError of decrease_key
\* (line 140), IndexMinPQ.HeapEmptyError of del_min (line 101), IndexError
\* of the list access of insert (line 81)
ValueError == -1001
HeapEmptyError == -1002
IndexError == -1003

\* IndexMinPQ.insert, any call with i in 0..max_n: _n is incremented first
\* (line 78), and there is no test of contains(i)
PQInsertCall(q, i, key) ==
    IF PQInsertRaises(q)
    THEN [queue |-> [q EXCEPT !.n = q.n + 1], ret |-> IndexError]
    ELSE [queue |-> PQInsert(q, i, key), ret |-> None]

\* IndexMinPQ.del_min, any call
PQDelMinCall(q) ==
    IF PQDelMinRaises(q)
    THEN [queue |-> q, ret |-> HeapEmptyError]
    ELSE [queue |-> PQDelMin(q), ret |-> PQMinIndex(q)]

\* mutant of PQDecreaseKeyCall: the key is stored before it is compared
PQDecreaseKeyCallStoreFirst(q, i, key) ==
    IF PQDecreaseKeyRaises(q, i, key)
    THEN [queue |-> [q EXCEPT !.keys[i] = key], ret |-> ValueError]
    ELSE [queue |-> PQDecreaseKey(q, i, key), ret |-> None]

\* IndexMinPQ.decrease_key, any call with i contained
PQDecreaseKeyCall(q, i, key) ==
    IF PQDecreaseKeyRaises(q, i, key)
    THEN [queue |-> q, ret |-> ValueError]
    ELSE [queue |-> PQDecreaseKey(q, i, key), ret |-> None]

\* the indices currently in the queue
PQIndices(q) == {i \in DOMAIN q.qp : PQContains(q, i)}

------------------------------------------------------------------------------
(* Specification SpecPQ: a client calling insert, decrease_key and del_min  *)
(* of one IndexMinPQ(MaxN), each call within its precondition.              *)

InitPQ ==
    /\ op = "new"
    /\ args = <<MaxN>>
    /\ ret = None
    /\ pqueue = PQNew(MaxN)
    /\ uf = Unused /\ graph = Unused /\ source = Unused /\ target = Unused
    /\ sp = Unused /\ mst = Unused /\ ff = Unused

PQOthers == <<uf, graph, source, target, sp, mst, ff>>

CallInsert ==
    \E i \in 0..(MaxN - 1), key \in 0..MaxKey :
        /\ ~PQContains(pqueue, i)
        /\ pqueue' = PQInsert(pqueue, i, key)
        /\ op' = "insert"
        /\ args' = <<i, key>>
        /\ ret' = None
        /\ UNCHANGED PQOthers

CallDecreaseKey ==
    \E i \in 0..(MaxN - 1), key \in 0..MaxKey :
        /\ PQContains(pqueue, i)
        /\ key < pqueue.keys[i]
        /\ pqueue' = PQDecreaseKey(pqueue, i, key)
        /\ op' = "decrease_key"
        /\ args' = <<i, key>>
        /\ ret' = None
        /\ UNCHANGED PQOthers

CallDelMin ==
    /\ PQNonEmpty(pqueue)
    /\ ret' = PQMinIndex(pqueue)
    /\ pqueue' = PQDelMin(pqueue)
    /\ op' = "del_min"
    /\ args' = <<>>
    /\ UNCHANGED PQOthers

NextPQ == CallInsert \/ CallDecreaseKey \/ CallDelMin

SpecPQ == InitPQ /\ [][NextPQ]_vars

\* C5: del_min on a non-empty queue returns a contained index whose key is
\* minimal among the contained indices, and removes exactly that index: it
\* is no longer contained, every other contained index stays contained with
\* its key, and nothing else becomes contained.
C5_DelMinReturnsMinimum ==
    [][op' = "del_min" =>
        /\ PQContains(pqueue, ret')
        /\ \A i \in PQIndices(pqueue) : pqueue.keys[ret'] <= pqueue.keys[i]
        /\ ~PQContains(pqueue', ret')
        /\ PQIndices(pqueue') = PQIndices(pqueue) \ {ret'}
        /\ \A i \in PQIndices(pqueue') : pqueue'.keys[i] = pqueue.keys[i]
        /\ pqueue'.n = pqueue.n - 1
      ]_vars

\* a del_min has returned index 2 from a queue that still holds three other
\* indices, one of them with the same key as another
C5_Witness ==
    /\ op = "del_min"
    /\ ret = 2
    /\ pqueue.n = 3
    /\ \E i, j \in PQIndices(pqueue) : i # j /\ pqueue.keys[i] = pqueue.keys[j]

\* C20: after any sequence of insert, decrease_key and del_min calls within
\* their preconditions, qp[pq[k]] = k for every slot k in 1..n, pq[qp[i]] = i
\* for every contained i, the contained indices are those held in the slots
\* 1..n and qp[i] = -1 for every other index, and the key of the entry in
\* slot k \div 2 is <= the key of the entry in slot k for every slot k in 2..n.
C20_InverseAndHeapOrder ==
    LET q == pqueue
        held == {q.pq[k] : k \in 1..q.n}
    IN  /\ \A k \in 1..q.n : q.qp[q.pq[k]] = k
        /\ \A i \in DOMAIN q.qp : PQContains(q, i) => q.pq[q.qp[i]] = i
        /\ \A i \in DOMAIN q.qp : PQContains(q, i) <=> i \in held
        /\ \A i \in DOMAIN q.qp \ held : q.qp[i] = -1
        /\ \A k \in 2..q.n : q.keys[q.pq[k \div 2]] <= q.keys[q.pq[k]]

\* decrease_key has moved its index from a lower slot to the root of a queue
\* of three entries; slot 4 still names the index a del_min removed
C20_Witness ==
    /\ op = "decrease_key"
    /\ pqueue.n = 3
    /\ pqueue.pq[1] = args[1]
    /\ pqueue.keys[pqueue.pq[2]] > pqueue.keys[pqueue.pq[3]]
    /\ pqueue.pq[4] \in 0..(MaxN - 1) /\ ~PQContains(pqueue, pqueue.pq[4])

------------------------------------------------------------------------------
(* Specification SpecPQAny: a client of one IndexMinPQ(MaxN) whose calls    *)
(* need not respect the preconditions: insert of a contained index,         *)
(* decrease_key to a key that is not smaller, del_min of the empty queue.   *)
(* Indices are in 0..MaxN-1 and decrease_key is called on contained         *)
(* indices.  The client is followed until the queue holds an index twice.   *)

\* the slots 1..n exist and hold pairwise different indices
PQOneEntryPerIndex(q) ==
    /\ q.n <= PQCapacity(q)
    /\ \A k1, k2 \in 1..q.n : q.pq[k1] = q.pq[k2] => k1 = k2

AnyInsert ==
    \E i \in 0..(MaxN - 1), key \in 0..MaxKey :
        LET r == PQInsertCall(pqueue, i, key)
        IN  /\ pqueue' = r.queue
            /\ ret' = r.ret
            /\ op' = "insert"
            /\ args' = <<i, key>>
            /\ UNCHANGED PQOthers

AnyDecreaseKey ==
    \E i \in 0..(MaxN - 1), key \in 0..MaxKey :
        /\ PQContains(pqueue, i)
        /\ LET r == PQDecreaseKeyCall(pqueue, i, key)
           IN  /\ pqueue' = r.queue
               /\ ret' = r.ret
        /\ op' = "decrease_key"
        /\ args' = <<i, key>>
        /\ UNCHANGED PQOthers

AnyDelMin ==
    /\ LET r == PQDelMinCall(pqueue)
       IN  /\ pqueue' = r.queue
           /\ ret' = r.ret
    /\ op' = "del_min"
    /\ args' = <<>>
    /\ UNCHANGED PQOthers

NextPQAny ==
    PQOneEntryPerIndex(pqueue) /\ (AnyInsert \/ AnyDecreaseKey \/ AnyDelMin)

SpecPQAny == InitPQ /\ [][NextPQAny]_vars

\* C15: insert(i, key) with i already contained raises an error and leaves
\* the queue unchanged, so that no index is in two slots of the queue.
C15_InsertContainedFails ==
    [][op' = "insert" /\ PQContains(pqueue, args'[1]) =>
        /\ ret' # None
        /\ pqueue' = pqueue
        /\ PQOneEntryPerIndex(pqueue')
      ]_vars

\* C16: decrease_key(i, key) with i contained and key not smaller than the
\* key of i raises ValueError, del_min of the empty queue raises
\* HeapEmptyError, and in both cases n, pq, qp and keys are what they were
\* before the call.
C16_FailedCallsLeaveQueue ==
    [][/\ op' = "decrease_key" /\ ~(args'[2] < pqueue.keys[args'[1]]) =>
            ret' = ValueError /\ pqueue' = pqueue
       /\ op' = "del_min" /\ pqueue.n = 0 =>
            ret' = HeapEmptyError /\ pqueue' = pqueue
      ]_vars

\* decrease_key(1, 2) was refused on a queue of three indices where the key
\* of 1 is 2 and 1 is not at the root
C16_Witness ==
    /\ op = "decrease_key" /\ ret = ValueError /\ args = <<1, 2>>
    /\ pqueue.n = 3 /\ pqueue.keys[1] = 2 /\ pqueue.pq[1] # 1

\* del_min was refused on a queue that held indices and was emptied
DelMinRefusedAfterUse ==
    /\ op = "del_min" /\ ret = HeapEmptyError
    /\ pqueue.n = 0 /\ pqueue.pq[1] # None

------------------------------------------------------------------------------
(* Edge-weighted digraphs  (shortest_path/edge_weighted_digraph.py,         *)
(* shortest_path/directed_edge.py).  A graph is [n, edges]; edges is the    *)
(* list EdgeWeightedDigraph.edges in insertion order, and an edge object is *)
(* referred to by its position in that list.                                *)

\* bounds of the enumerated graphs: at most MaxV vertices and MaxE edges,
\* edge weights of absolute value at most MaxW
MaxV == 3
MaxE == 3
MaxW == 2

\* WeightedEdge.__init__
Edge(v, w, weight) == [v |-> v, w |-> w, weight |-> weight]

\* every list of at most m edges over the vertices 0..n-1 with weights in W
EdgeLists(n, W, m) ==
    UNION {[1..k -> {Edge(v, w, x) : v \in 0..(n - 1), w \in 0..(n - 1), x \in W}]
           : k \in 0..m}

\* EdgeWeightedDigraph.__init__ followed by add_edge for each edge of es
Digraph(n, es) == [n |-> n, edges |-> es]

Vertices(g) == 0..(g.n - 1)
EdgeIds(g) == 1..Len(g.edges)

\* WeightedEdge.from_edge, to_edge, weight of the edge object e of g
FromEdge(g, e) == g.edges[e].v
ToEdge(g, e) == g.edges[e].w
Weight(g, e) == g.edges[e].weight

RECURSIVE IdsFrom(_, _, _)
IdsFrom(g, v, k) ==
    IF k > Len(g.edges) THEN <<>>
    ELSE (IF g.edges[k].v = v THEN <<k>> ELSE <<>>) \o IdsFrom(g, v, k + 1)

\* EdgeWeightedDigraph.adjacents: the edges leaving v, in insertion order
Adjacents(g, v) == IdsFrom(g, v, 1)

\* the digraph of the documented scenario: (0,1,1), (1,2,1), (0,2,5), (2,3,1)
ScenarioDigraph ==
    Digraph(4, <<Edge(0, 1, 1), Edge(1, 2, 1), Edge(0, 2, 5), Edge(2, 3, 1)>>)

(* Reference semantics: the weight of a lightest walk *)

\* LightestWithin(g, s, k)[v]: least weight of a walk from s to v of at most
\* k edges, Inf when there is none
RECURSIVE LightestWithin(_, _, _)
LightestWithin(g, s, k) ==
    IF k = 0 THEN [v \in Vertices(g) |-> IF v = s THEN 0 ELSE Inf]
    ELSE LET prev == LightestWithin(g, s, k - 1)
             RECURSIVE Best(_, _)
             Best(v, e) ==
                 IF e > Len(g.edges) THEN prev[v]
                 ELSE IF g.edges[e].w = v
                      THEN Min(Add(prev[g.edges[e].v], g.edges[e].weight), Best(v, e + 1))
                      ELSE Best(v, e + 1)
         IN  [v \in Vertices(g) |-> Best(v, 1)]

\* the shortest-path distance from s (no negative cycle reachable from s):
\* a lightest path has at most n-1 edges
ShortestDist(g, s) == LightestWithin(g, s, g.n - 1)

\* v is reachable from s by a directed path
Reachable(g, s, v) == ShortestDist(g, s)[v] < Inf

\* a negative-weight cycle is reachable from s: some walk of n edges is
\* lighter than every walk of at most n-1 edges
NegativeCycleReachable(g, s) ==
    \E v \in Vertices(g) : LightestWithin(g, s, g.n)[v] < ShortestDist(g, s)[v]

------------------------------------------------------------------------------
(* DijkstraSP  (shortest_path/dijkstra_sp.py) *)

\* DijkstraSP.__init__, lines 18-23: the object when the while loop starts.
\* todo is the iterator of the for loop: the edges still to relax.
DijkstraNew(g, s) ==
    [edge_to |-> [v \in Vertices(g) |-> None],
     dist_to |-> [v \in Vertices(g) |-> IF v = s THEN 0 ELSE Inf],
     priority_queue |-> PQInsert(PQNew(g.n), s, 0),
     todo |-> <<>>]

\* mutant of DijkstraImproves: the distance of the tail is left out
DijkstraImprovesNoTail(g, d, e) == d.dist_to[ToEdge(g, e)] > Weight(g, e)

\* mutant of DijkstraImproves: an edge that gives the same distance is
\* taken too
DijkstraImprovesOrEqual(g, d, e) ==
    d.dist_to[ToEdge(g, e)] >= Add(Weight(g, e), d.dist_to[FromEdge(g, e)])

\* DijkstraSP._relax, line 40
DijkstraImproves(g, d, e) ==
    d.dist_to[ToEdge(g, e)] > Add(Weight(g, e), d.dist_to[FromEdge(g, e)])

\* mutant of DijkstraRelax: insert is called without the test of contains
DijkstraRelaxAlwaysInsert(g, d, e) ==
    LET w == ToEdge(g, e)
        x == Add(Weight(g, e), d.dist_to[FromEdge(g, e)])
    IN  IF DijkstraImproves(g, d, e)
        THEN [d EXCEPT !.dist_to[w] = x,
                       !.edge_to[w] = e,
                       !.priority_queue = PQInsertCall(d.priority_queue, w, x).queue]
        ELSE d

\* DijkstraSP._relax
DijkstraRelax(g, d, e) ==
    LET w == ToEdge(g, e)
        x == Add(Weight(g, e), d.dist_to[FromEdge(g, e)])
    IN  IF DijkstraImproves(g, d, e)
        THEN [d EXCEPT !.dist_to[w] = x,
                       !.edge_to[w] = e,
                       !.priority_queue =
                           IF PQContains(d.priority_queue, w)
                           THEN PQDecreaseKey(d.priority_queue, w, x)
                           ELSE PQInsert(d.priority_queue, w, x)]
        ELSE d

\* the constructor has left the while loop
DijkstraDone(d) == d.todo = <<>> /\ ~PQNonEmpty(d.priority_queue)

\* one step of the constructor's loops: the del_min of line 26, or the
\* _relax of line 29 for the next edge
DijkstraStep(g, d) ==
    IF d.todo # <<>>
    THEN [DijkstraRelax(g, d, Head(d.todo)) EXCEPT !.todo = Tail(d.todo)]
    ELSE [d EXCEPT !.priority_queue = PQDelMin(d.priority_queue),
                   !.todo = Adjacents(g, PQMinIndex(d.priority_queue))]

\* the constructor run to its end
RECURSIVE DijkstraRun(_, _)
DijkstraRun(g, d) == IF DijkstraDone(d) THEN d ELSE DijkstraRun(g, DijkstraStep(g, d))

\* mutant of PathFrom: the collected edges are not reversed
RECURSIVE PathFromUnreversed(_, _, _, _)
PathFromUnreversed(g, edge_to, e, fuel) ==
    IF e = None \/ fuel = 0 THEN <<>>
    ELSE <<e>> \o PathFromUnreversed(g, edge_to, edge_to[FromEdge(g, e)], fuel - 1)

\* path_to, lines 71-78: the edges collected from current_edge backwards,
\* reversed.  fuel bounds the walk of the while loop, which does not end
\* when the edge_to links form a cycle.
RECURSIVE PathFrom(_, _, _, _)
PathFrom(g, edge_to, e, fuel) ==
    IF e = None \/ fuel = 0 THEN <<>>
    ELSE PathFrom(g, edge_to, edge_to[FromEdge(g, e)], fuel - 1) \o <<e>>

\* DijkstraSP.path_to
DijkstraPathTo(g, d, v) == PathFrom(g, d.edge_to, d.edge_to[v], g.n)

------------------------------------------------------------------------------
(* Specification SpecDijkstra: DijkstraSP(graph, source) on every digraph   *)
(* of the bounds with weights 0..MaxW and on the documented scenario.       *)

\* every digraph of the bounds with weights in W
Digraphs(W) ==
    UNION {{Digraph(n, es) : es \in EdgeLists(n, W, MaxE)} : n \in 1..MaxV}

InitDijkstra ==
    /\ graph \in Digraphs(0..MaxW) \cup {ScenarioDigraph}
    /\ source \in Vertices(graph)
    /\ sp = DijkstraNew(graph, source)
    /\ op = "new"
    /\ args = <<>>
    /\ ret = None
    /\ pqueue = Unused /\ uf = Unused /\ target = Unused
    /\ mst = Unused /\ ff = Unused

SPOthers == <<args, ret, pqueue, uf, graph, source, target, mst, ff>>

\* line 26: vertex = self._priority_queue.del_min()
DijkstraDelMin ==
    /\ op # "done"
    /\ sp.todo = <<>>
    /\ PQNonEmpty(sp.priority_queue)
    /\ sp' = DijkstraStep(graph, sp)
    /\ op' = "del_min"
    /\ UNCHANGED SPOthers

\* line 29: self._relax(edge)
DijkstraRelaxEdge ==
    /\ op # "done"
    /\ sp.todo # <<>>
    /\ sp' = DijkstraStep(graph, sp)
    /\ op' = "relax"
    /\ UNCHANGED SPOthers

\* line 25: the queue is empty, the constructor returns
DijkstraReturn ==
    /\ op # "done"
    /\ DijkstraDone(sp)
    /\ op' = "done"
    /\ UNCHANGED <<sp, args, ret, pqueue, uf, graph, source, target, mst, ff>>

NextDijkstra == DijkstraDelMin \/ DijkstraRelaxEdge \/ DijkstraReturn

SpecDijkstra == InitDijkstra /\ [][NextDijkstra]_vars

\* C1: after construction on non-negative weights dist_to(v) is the
\* shortest-path distance from the source for every reachable vertex v and
\* infinite for every unreachable one.
C1_DijkstraDistances ==
    op = "done" =>
        \A v \in Vertices(graph) :
            /\ sp.dist_to[v] = ShortestDist(graph, source)[v]
            /\ ~Reachable(graph, source, v) => sp.dist_to[v] = Inf

\* the scenario: from source 0, dist_to(3) = 3 although the edge 0->2 of
\* weight 5 was relaxed first
C1_Witness ==
    /\ op = "done"
    /\ graph = ScenarioDigraph
    /\ source = 0
    /\ sp.dist_to[3] = 3
    /\ sp.dist_to[2] = 2

\* the edges of a path are contiguous, lead from s to v and weigh x in total
IsPathOfWeight(g, p, s, v, x) ==
    /\ p # <<>>
    /\ \A k \in 1..Len(p) : p[k] \in EdgeIds(g)
    /\ FromEdge(g, p[1]) = s
    /\ ToEdge(g, p[Len(p)]) = v
    /\ \A k \in 1..(Len(p) - 1) : ToEdge(g, p[k]) = FromEdge(g, p[k + 1])
    /\ SumSeq([k \in 1..Len(p) |-> Weight(g, p[k])]) = x

\* C10: after construction on non-negative weights, path_to(v) of a
\* reachable vertex other than the source is a contiguous list of graph
\* edges from the source to v of total weight dist_to(v); path_to(source)
\* and path_to of an unreachable vertex are empty.
C10_DijkstraPaths ==
    op = "done" =>
        \A v \in Vertices(graph) :
            IF v # source /\ Reachable(graph, source, v)
            THEN IsPathOfWeight(graph, DijkstraPathTo(graph, sp, v), source, v,
                                sp.dist_to[v])
            ELSE DijkstraPathTo(graph, sp, v) = <<>>

\* the scenario: path_to(3) is 0->1, 1->2, 2->3
C10_Witness ==
    /\ op = "done"
    /\ graph = ScenarioDigraph
    /\ source = 0
    /\ DijkstraPathTo(graph, sp, 3) = <<1, 2, 4>>

------------------------------------------------------------------------------
(* UnionFind  (minimum_spanning_tree/utils/union_find.py) *)

\* number of sites of the stand-alone UnionFind
MaxSites == 4

\* UnionFind.__init__
UFNew(n) == [id |-> [i \in 0..(n - 1) |-> i], size |-> [i \in 0..(n - 1) |-> 1]]

\* UnionFind._root: the object after the call (the path is halved)
RECURSIVE UFRootState(_, _)
UFRootState(u, i) ==
    IF u.id[i] # i
    THEN LET u2 == [u EXCEPT !.id[i] = u.id[u.id[i]]]
         IN  UFRootState(u2, u2.id[i])
    ELSE u

\* UnionFind._root: the root returned
RECURSIVE UFRoot(_, _)
UFRoot(u, i) ==
    IF u.id[i] # i
    THEN LET u2 == [u EXCEPT !.id[i] = u.id[u.id[i]]]
         IN  UFRoot(u2, u2.id[i])
    ELSE i

\* UnionFind.connected, line 95: the object after the call
UFConnectedState(u, p, q) == UFRootState(UFRootState(u, p), q)

\* UnionFind.connected, line 95: the value returned
UFConnected(u, p, q) == UFRoot(u, p) = UFRoot(UFRootState(u, p), q)

\* mutant of UFLink: the size of the surviving root is not updated
UFLinkKeepSize(u, i, j, p, q) ==
    IF u.size[i] < u.size[j]
    THEN [u EXCEPT !.id[i] = j]
    ELSE [u EXCEPT !.id[j] = i]

\* mutant of UFLink: on equal sizes the root of p is attached
UFLinkTieToQ(u, i, j, p, q) ==
    IF u.size[i] <= u.size[j]
    THEN [u EXCEPT !.id[i] = j, !.size[j] = u.size[j] + u.size[i]]
    ELSE [u EXCEPT !.id[j] = i, !.size[i] = u.size[i] + u.size[j]]

\* mutant of UFLink: the site q itself, not its root, is attached
UFLinkSite(u, i, j, p, q) ==
    IF u.size[i] < u.size[j]
    THEN [u EXCEPT !.id[p] = j, !.size[j] = u.size[j] + u.size[i]]
    ELSE [u EXCEPT !.id[q] = i, !.size[i] = u.size[i] + u.size[j]]

\* UnionFind.union, lines 122-128: root i of p and root j of q differ
UFLink(u, i, j, p, q) ==
    IF u.size[i] < u.size[j]
    THEN [u EXCEPT !.id[i] = j, !.size[j] = u.size[j] + u.size[i]]
    ELSE [u EXCEPT !.id[j] = i, !.size[i] = u.size[i] + u.size[j]]

\* mutant of UFUnion: the test i == j of lines 119-120 is left out
UFUnionNoTest(u, p, q) ==
    LET u1 == UFRootState(u, p)
        i  == UFRoot(u, p)
        u2 == UFRootState(u1, q)
        j  == UFRoot(u1, q)
    IN  UFLink(u2, i, j, p, q)

\* UnionFind.union
UFUnion(u, p, q) ==
    LET u1 == UFRootState(u, p)
        i  == UFRoot(u, p)
        u2 == UFRootState(u1, q)
        j  == UFRoot(u1, q)
    IN  IF i = j THEN u2 ELSE UFLink(u2, i, j, p, q)

UFSites(u) == DOMAIN u.id

\* connected, lines 91-92, and union, lines 113-114: the range test raises
\* IndexError.  len(self._size) itself passes the test.
UFRangeRaises(u, p, q) ==
    LET len == Cardinality(DOMAIN u.size)
    IN  ~(0 <= p /\ p <= len) \/ ~(0 <= q /\ q <= len)

\* _root, line 65: self._id[i] raises IndexError (i >= 0 here)
UFRootRaises(u, i) == i >= Cardinality(DOMAIN u.id)

\* UnionFind.connected, any call with integers p and q
UFConnectedCall(u, p, q) ==
    IF UFRangeRaises(u, p, q) THEN [uf |-> u, ret |-> IndexError]
    ELSE IF UFRootRaises(u, p) THEN [uf |-> u, ret |-> IndexError]
    ELSE IF UFRootRaises(u, q) THEN [uf |-> UFRootState(u, p), ret |-> IndexError]
    ELSE [uf |-> UFConnectedState(u, p, q), ret |-> UFConnected(u, p, q)]

\* mutant of UFUnionCall: only the upper end of the range is tested, and a
\* negative p or q indexes the lists from their end
UFUnionCallUpperOnly(u, p, q) ==
    LET len == Cardinality(DOMAIN u.size)
        pp  == IF p < 0 THEN p + len ELSE p
        qq  == IF q < 0 THEN q + len ELSE q
    IN  IF p > len \/ q > len THEN [uf |-> u, ret |-> IndexError]
        ELSE IF UFRootRaises(u, pp) THEN [uf |-> u, ret |-> IndexError]
        ELSE IF UFRootRaises(u, qq) THEN [uf |-> UFRootState(u, pp), ret |-> IndexError]
        ELSE [uf |-> UFUnion(u, pp, qq), ret |-> None]

\* UnionFind.union, any call with integers p and q
UFUnionCall(u, p, q) ==
    IF UFRangeRaises(u, p, q) THEN [uf |-> u, ret |-> IndexError]
    ELSE IF UFRootRaises(u, p) THEN [uf |-> u, ret |-> IndexError]
    ELSE IF UFRootRaises(u, q) THEN [uf |-> UFRootState(u, p), ret |-> IndexError]
    ELSE [uf |-> UFUnion(u, p, q), ret |-> None]

\* mutant of UFComponentsLoop: a site is filed under its parent, not under
\* its root
RECURSIVE UFComponentsByParent(_, _, _, _)
UFComponentsByParent(u, i, keys, groups) ==
    IF i = Cardinality(DOMAIN u.id)
    THEN [uf |-> u, ret |-> [k \in 1..Len(keys) |-> groups[keys[k]]]]
    ELSE LET r == u.id[i]
         IN  UFComponentsByParent(u, i + 1,
                 IF \E k \in 1..Len(keys) : keys[k] = r THEN keys
                 ELSE Append(keys, r),
                 [groups EXCEPT ![r] = @ \cup {i}])

\* UnionFind._components, lines 46-52: the for loop from site i on.  keys
\* are the roots in the order the defaultdict met them, groups its sets.
RECURSIVE UFComponentsLoop(_, _, _, _)
UFComponentsLoop(u, i, keys, groups) ==
    IF i = Cardinality(DOMAIN u.id)
    THEN [uf |-> u, ret |-> [k \in 1..Len(keys) |-> groups[keys[k]]]]
    ELSE LET r == UFRoot(u, i)
         IN  UFComponentsLoop(UFRootState(u, i), i + 1,
                 IF \E k \in 1..Len(keys) : keys[k] = r THEN keys
                 ELSE Append(keys, r),
                 [groups EXCEPT ![r] = @ \cup {i}])

\* UnionFind._components: the object after the call and the list returned
UFComponents(u) == UFComponentsLoop(u, 0, <<>>, [r \in DOMAIN u.id |-> {}])

\* the partition of the sites into components
UFPartition(u) ==
    {{q \in UFSites(u) : UFConnected(u, p, q)} : p \in UFSites(u)}

------------------------------------------------------------------------------
(* Specification SpecUF: a client calling union and connected of one        *)
(* UnionFind(MaxSites) with sites in [0, n).                                *)

InitUF ==
    /\ op = "new"
    /\ args = <<MaxSites>>
    /\ ret = None
    /\ uf = UFNew(MaxSites)
    /\ pqueue = Unused /\ graph = Unused /\ source = Unused /\ target = Unused
    /\ sp = Unused /\ mst = Unused /\ ff = Unused

UFOthers == <<pqueue, graph, source, target, sp, mst, ff>>

CallUnion ==
    \E p \in UFSites(uf), q \in UFSites(uf) :
        /\ uf' = UFUnion(uf, p, q)
        /\ op' = "union"
        /\ args' = <<p, q>>
        /\ ret' = None
        /\ UNCHANGED UFOthers

CallConnected ==
    \E p \in UFSites(uf), q \in UFSites(uf) :
        /\ uf' = UFConnectedState(uf, p, q)
        /\ op' = "connected"
        /\ args' = <<p, q>>
        /\ ret' = UFConnected(uf, p, q)
        /\ UNCHANGED UFOthers

NextUF == CallUnion \/ CallConnected

SpecUF == InitUF /\ [][NextUF]_vars

\* connected is an equivalence relation on the sites of u
UFEquivalence(u) ==
    /\ \A p \in UFSites(u) : UFConnected(u, p, p)
    /\ \A p, q \in UFSites(u) : UFConnected(u, p, q) => UFConnected(u, q, p)
    /\ \A p, q, r \in UFSites(u) :
           UFConnected(u, p, q) /\ UFConnected(u, q, r) => UFConnected(u, p, r)

\* C6: connected(p, q) is true right after union(p, q); a pair that is
\* connected stays connected over every later union and connected call;
\* connected is reflexive, symmetric and transitive in every state; and
\* connected returns what it would have returned before its own call's
\* path compression.
C6_UnionFindConnectivity ==
    /\ UFEquivalence(uf)
    /\ [][/\ op' = "union" => UFConnected(uf', args'[1], args'[2])
          /\ \A p, q \in UFSites(uf) : UFConnected(uf, p, q) => UFConnected(uf', p, q)
          /\ UFEquivalence(uf')
          /\ op' = "connected" => ret' = UFConnected(uf', args'[1], args'[2])
         ]_vars

\* after union(0, 1), union(2, 3) and a later union(1, 3) of the two trees,
\* a compressing connected(3, 0) call has returned true and 0 and 1 are
\* still connected
C6_Witness ==
    /\ op = "connected"
    /\ args = <<3, 0>>
    /\ ret = TRUE
    /\ uf.size[0] = 4
    /\ uf.id[3] = 0
    /\ UFConnected(uf, 0, 1)

\* the sites met when following the parent links of u from site i, i included
RECURSIVE UFAncestors(_, _)
UFAncestors(u, i) ==
    IF u.id[i] = i THEN {i} ELSE {i} \cup UFAncestors(u, u.id[i])

\* C22 as stated: union(p, q) on two connected sites leaves _id and _size
\* identical.
C22_UnionConnectedNoOp ==
    [][op' = "union" /\ UFConnected(uf, args'[1], args'[2]) =>
        uf'.id = uf.id /\ uf'.size = uf.size
      ]_vars

\* C22 as amended: union(p, q) on two connected sites leaves _size
\* identical and every site's root unchanged; a parent link that changes
\* belongs to a site on the path from p or q to the root and now points to
\* a site further up that path.
C22_UnionConnectedKeepsRoots ==
    [][op' = "union" /\ UFConnected(uf, args'[1], args'[2]) =>
        /\ uf'.size = uf.size
        /\ \A i \in UFSites(uf) : UFRoot(uf', i) = UFRoot(uf, i)
        /\ \A i \in UFSites(uf) :
               uf'.id[i] # uf.id[i] =>
                   /\ i \in UFAncestors(uf, args'[1]) \cup UFAncestors(uf, args'[2])
                   /\ uf'.id[i] \in UFAncestors(uf, uf.id[i]) \ {uf.id[i]}
      ]_vars

\* union(0, 0), a call on connected sites, has acted on the tree
\* 0 -> 2 -> 3 <- 1: site 0, which was linked below 2 (the size of 2 is 2),
\* is now a child of the root 3
C22_Witness ==
    /\ op = "union"
    /\ args = <<0, 0>>
    /\ uf.id = [i \in 0..3 |-> 3]
    /\ uf.size = [i \in 0..3 |-> IF i = 3 THEN 4 ELSE IF i = 2 THEN 2 ELSE 1]

\* the sites whose root is r
UFComponentOf(u, r) == {i \in UFSites(u) : UFRoot(u, i) = r}

UFRoots(u) == {r \in UFSites(u) : u.id[r] = r}

\* C24: after any sequence of union and connected calls on valid sites,
\* _size[r] of every root r is the number of sites whose root is r, and the
\* sizes of all roots sum to n.
C24_SizeOfRoots ==
    /\ \A r \in UFRoots(uf) : uf.size[r] = Cardinality(UFComponentOf(uf, r))
    /\ SumSeq([k \in 1..Cardinality(UFSites(uf)) |->
                   IF k - 1 \in UFRoots(uf) THEN uf.size[k - 1] ELSE 0])
           = Cardinality(UFSites(uf))

\* a union has made 0 the root of all four sites, site 3 two links away;
\* 2 is no root and keeps the size 2 it had as one
C24_Witness ==
    /\ op = "union"
    /\ uf.id = [i \in 0..3 |-> IF i = 3 THEN 2 ELSE 0]
    /\ uf.size = [i \in 0..3 |-> IF i = 0 THEN 4 ELSE IF i = 2 THEN 2 ELSE 1]

\* C25: union(p, q) on sites of different components makes the root of the
\* component with fewer sites a child of the root of the component with
\* more sites, and on equal numbers the root of q a child of the root of p;
\* the attachment changes no other parent link (the links are those that
\* the two _root calls left).
C25_SmallerUnderLarger ==
    [][op' = "union" /\ ~UFConnected(uf, args'[1], args'[2]) =>
        LET i == UFRoot(uf, args'[1])
            j == UFRoot(uf, args'[2])
            fewer == Cardinality(UFComponentOf(uf, i)) < Cardinality(UFComponentOf(uf, j))
            child == IF fewer THEN i ELSE j
            parent == IF fewer THEN j ELSE i
            found == UFConnectedState(uf, args'[1], args'[2])
        IN  /\ uf'.id[child] = parent
            /\ \A k \in UFSites(uf) \ {child} : uf'.id[k] = found.id[k]
      ]_vars

\* union(3, 1) has joined {2, 3} and {0, 1}, two sites each: 0, the root of
\* 1, is a child of 2, the root of 3
C25_Witness ==
    /\ op = "union"
    /\ args = <<3, 1>>
    /\ uf.id = [i \in 0..3 |-> IF i = 1 THEN 0 ELSE 2]
    /\ uf.size[2] = 4 /\ uf.size[0] = 2

------------------------------------------------------------------------------
(* Specification SpecUFEnum: the client of SpecUF, who also enumerates the  *)
(* components: len(uf), iter(uf), uf[index] and repr(uf) each make one      *)
(* _components call and read its list.                                      *)

CallComponents ==
    LET r == UFComponents(uf)
    IN  /\ uf' = r.uf
        /\ ret' = r.ret
        /\ op' = "components"
        /\ args' = <<>>
        /\ UNCHANGED UFOthers

NextUFEnum == CallUnion \/ CallConnected \/ CallComponents

SpecUFEnum == InitUF /\ [][NextUFEnum]_vars

\* the list ret holds every component of u once and nothing else
IsPartitionList(u, list) ==
    /\ {list[k] : k \in 1..Len(list)} = UFPartition(u)
    /\ Cardinality(UFPartition(u)) = Len(list)

\* C23 as stated: enumerating the components changes neither _id nor _size
\* and returns exactly the partition of 0..n-1 induced by connected.
C23_EnumerationReadOnly ==
    [][op' = "components" =>
        /\ uf'.id = uf.id /\ uf'.size = uf.size
        /\ IsPartitionList(uf, ret')
      ]_vars

\* C23 as amended: enumerating the components changes no size and no
\* site's root (a parent link that changes now points to a site further up
\* the old path to the root), and returns exactly the partition of 0..n-1
\* induced by connected, before and after the call.
C23_EnumerationKeepsRoots ==
    [][op' = "components" =>
        /\ uf'.size = uf.size
        /\ \A i \in UFSites(uf) : UFRoot(uf', i) = UFRoot(uf, i)
        /\ \A i \in UFSites(uf) :
               uf'.id[i] # uf.id[i] =>
                   uf'.id[i] \in UFAncestors(uf, uf.id[i]) \ {uf.id[i]}
        /\ IsPartitionList(uf, ret') /\ IsPartitionList(uf', ret')
      ]_vars

\* the one component of four sites was listed; site 0, which was linked
\* below 1 (the size of 1 is 2), is a child of the root 3
C23_Witness ==
    /\ op = "components"
    /\ ret = <<{0, 1, 2, 3}>>
    /\ uf.id = [i \in 0..3 |-> 3]
    /\ uf.size = [i \in 0..3 |-> IF i = 3 THEN 4 ELSE IF i = 1 THEN 2 ELSE 1]

------------------------------------------------------------------------------
(* Specification SpecUFAny: a client calling union and connected of one     *)
(* UnionFind(MaxSites) with integers from -1 to MaxSites + 1.               *)

UFIntegers == (-1)..(MaxSites + 1)

AnyUnion ==
    \E p \in UFIntegers, q \in UFIntegers :
        LET r == UFUnionCall(uf, p, q)
        IN  /\ uf' = r.uf
            /\ ret' = r.ret
            /\ op' = "union"
            /\ args' = <<p, q>>
            /\ UNCHANGED UFOthers

AnyConnected ==
    \E p \in UFIntegers, q \in UFIntegers :
        LET r == UFConnectedCall(uf, p, q)
        IN  /\ uf' = r.uf
            /\ ret' = r.ret
            /\ op' = "connected"
            /\ args' = <<p, q>>
            /\ UNCHANGED UFOthers

NextUFAny == AnyUnion \/ AnyConnected

SpecUFAny == InitUF /\ [][NextUFAny]_vars

\* C17: connected(p, q) and union(p, q) with p or q outside [0, n), p = n,
\* q = n and negative values included, fail with IndexError, and the
\* partition of the sites into components is the same after the call.
C17_OutOfRangeFails ==
    [][args'[1] \notin UFSites(uf) \/ args'[2] \notin UFSites(uf) =>
        /\ ret' = IndexError
        /\ UFPartition(uf') = UFPartition(uf)
      ]_vars

\* union(3, MaxSites) has passed the range test and failed in _root, on a
\* structure whose four sites are one component
C17_Witness ==
    /\ op = "union" /\ args = <<3, MaxSites>> /\ ret = IndexError
    /\ uf.id[2] = 0 /\ uf.id[3] = 0 /\ uf.size[0] = 4

------------------------------------------------------------------------------
(* Undirected edge-weighted graphs  (minimum_spanning_tree/weighted_edge.py *)
(* and the EdgeWeightedGraph container the three MST classes import).       *)
(* A graph is [n, edges] as for digraphs; the edge {v, w} is stored with    *)
(* the orientation it was created with.                                     *)

\* edge weights of the enumerated undirected graphs: -MaxMstW..MaxMstW
MaxMstW == 1

\* WeightedEdge.either
Either(g, e) == g.edges[e].v

\* WeightedEdge.other
Other(g, e, vertex) == IF vertex = g.edges[e].v THEN g.edges[e].w ELSE g.edges[e].v

\* EdgeWeightedGraph.add_edge appends the edge to the list of each endpoint
RECURSIVE IdsAt(_, _, _)
IdsAt(g, v, k) ==
    IF k > Len(g.edges) THEN <<>>
    ELSE (IF g.edges[k].v = v THEN <<k>> ELSE <<>>)
         \o (IF g.edges[k].w = v THEN <<k>> ELSE <<>>)
         \o IdsAt(g, v, k + 1)

\* EdgeWeightedGraph.adjacents: the edges incident on v, in insertion order
IncidentEdges(g, v) == IdsAt(g, v, 1)

\* every undirected graph of the bounds with weights in W
Graphs(W) == Digraphs(W)

\* a graph with tied weights: the square 0-1-2-3-0 of weight 1 with the
\* diagonal 0-2 of weight 2
TiedSquare ==
    Digraph(4, <<Edge(0, 1, 1), Edge(1, 2, 1), Edge(2, 3, 1), Edge(3, 0, 1),
                 Edge(0, 2, 2)>>)

------------------------------------------------------------------------------
(* Specification SpecEdge: a client calling either and other of one         *)
(* WeightedEdge(v, w, weight), other with any vertex number in 0..MaxV,     *)
(* endpoint or not.  graph holds the one edge.                              *)

InitEdge ==
    /\ graph \in {Digraph(MaxV, <<Edge(v, w, x)>>) :
                      v \in 0..(MaxV - 1), w \in 0..(MaxV - 1),
                      x \in (-MaxMstW)..MaxMstW}
    /\ op = "new"
    /\ args = <<>>
    /\ ret = None
    /\ pqueue = Unused /\ uf = Unused /\ source = Unused /\ target = Unused
    /\ sp = Unused /\ mst = Unused /\ ff = Unused

EdgeOthers == <<graph, pqueue, uf, source, target, sp, mst, ff>>

CallEither ==
    /\ ret' = Either(graph, 1)
    /\ op' = "either"
    /\ args' = <<>>
    /\ UNCHANGED EdgeOthers

CallOther ==
    \E vertex \in 0..MaxV :
        /\ ret' = Other(graph, 1, vertex)
        /\ op' = "other"
        /\ args' = <<vertex>>
        /\ UNCHANGED EdgeOthers

NextEdge == CallEither \/ CallOther

SpecEdge == InitEdge /\ [][NextEdge]_vars

\* other(vertex) with an endpoint of the edge returns the remaining endpoint
OtherOfEndpoint ==
    [][op' = "other" =>
        /\ args'[1] = graph.edges[1].v => ret' = graph.edges[1].w
        /\ args'[1] = graph.edges[1].w => ret' = graph.edges[1].v
      ]_vars

\* C18: other(vertex) of the edge {v, w} returns w when given v and v when
\* given w, and raises ValueError when given a vertex that is not an
\* endpoint of the edge.
C18_OtherChecksEndpoint ==
    [][op' = "other" =>
        /\ args'[1] = graph.edges[1].v => ret' = graph.edges[1].w
        /\ args'[1] = graph.edges[1].w => ret' = graph.edges[1].v
        /\ args'[1] \notin {graph.edges[1].v, graph.edges[1].w} => ret' = ValueError
      ]_vars

(* heapq on a list of edges ordered by WeightedEdge.__lt__ (weight only).   *)
(* heappop returns an edge that no edge of the heap is less than; which of  *)
(* several edges of equal weight it returns is the heap's internal order,   *)
(* and every choice is explored.                                            *)

\* WeightedEdge.__lt__
EdgeLess(g, e, f) == Weight(g, e) < Weight(g, f)

\* heapq.heappush
HeapPush(heap, e) == Append(heap, e)

\* the positions heapq.heappop may return
HeapMinPositions(g, heap) ==
    {k \in 1..Len(heap) : \A j \in 1..Len(heap) : ~EdgeLess(g, heap[j], heap[k])}

RECURSIVE HeapPushAll(_, _)
HeapPushAll(heap, es) ==
    IF es = <<>> THEN heap ELSE HeapPushAll(HeapPush(heap, Head(es)), Tail(es))

(* Reference semantics: spanning trees *)

\* the vertices joined to the vertices of S by the edges of F, to a fixpoint
RECURSIVE Closure(_, _, _)
Closure(g, F, S) ==
    LET T == S \cup {g.edges[e].w : e \in {f \in F : g.edges[f].v \in S}}
                \cup {g.edges[e].v : e \in {f \in F : g.edges[f].w \in S}}
    IN  IF T = S THEN S ELSE Closure(g, F, T)

\* the edges of F join every vertex of g to vertex 0
Spans(g, F) == Closure(g, F, {0}) = Vertices(g)

IsConnected(g) == Spans(g, EdgeIds(g))

\* F is a spanning tree of g: n-1 edges that join all the vertices
IsSpanningTree(g, F) == Cardinality(F) = g.n - 1 /\ Spans(g, F)

SpanningTrees(g) == {F \in SUBSET EdgeIds(g) : IsSpanningTree(g, F)}

RECURSIVE SetWeight(_, _)
SetWeight(g, F) ==
    IF F = {} THEN 0
    ELSE LET e == CHOOSE f \in F : TRUE IN Weight(g, e) + SetWeight(g, F \ {e})

\* total weight of a list of edges
ListWeight(g, es) == SumSeq([k \in 1..Len(es) |-> Weight(g, es[k])])

ListSet(es) == {es[k] : k \in 1..Len(es)}

------------------------------------------------------------------------------
(* KruskalMST  (minimum_spanning_tree/kruskal.py) *)

\* KruskalMST.__init__, lines 18-23
KruskalNew(g) ==
    [mst |-> <<>>,
     priority_queue |-> HeapPushAll(<<>>, [k \in 1..Len(g.edges) |-> k]),
     union_find |-> UFNew(g.n)]

\* line 25: the while condition
KruskalRunning(g, k) == k.priority_queue # <<>> /\ Len(k.mst) < g.n - 1

\* mutant of KruskalAccepts: every popped edge is accepted
KruskalAcceptsAll(g, k, e) == TRUE

\* line 30: not union_find.connected(vertex_v, vertex_w)
KruskalAccepts(g, k, e) ==
    ~UFConnected(k.union_find, Either(g, e), Other(g, e, Either(g, e)))

\* lines 26-32: one round of the loop that pops the edge at position pos
KruskalIterate(g, k, pos) ==
    LET e == k.priority_queue[pos]
        v == Either(g, e)
        w == Other(g, e, v)
        heap == RemoveAt(k.priority_queue, pos)
        u1 == UFConnectedState(k.union_find, v, w)
    IN  IF KruskalAccepts(g, k, e)
        THEN [mst |-> Append(k.mst, e), priority_queue |-> heap,
              union_find |-> UFUnion(u1, v, w)]
        ELSE [mst |-> k.mst, priority_queue |-> heap, union_find |-> u1]

\* KruskalMST.edges
KruskalEdges(k) == k.mst

------------------------------------------------------------------------------
(* LazyPrimMST  (minimum_spanning_tree/lazy_prim.py) *)

\* LazyPrimMST._visit, lines 56-58: the edges of es pushed for vertex
RECURSIVE LazyPushUnmarked(_, _, _, _, _)
LazyPushUnmarked(g, marked, heap, vertex, es) ==
    IF es = <<>> THEN heap
    ELSE LazyPushUnmarked(g, marked,
             IF ~marked[Other(g, Head(es), vertex)] THEN HeapPush(heap, Head(es))
             ELSE heap,
             vertex, Tail(es))

\* LazyPrimMST._visit
LazyVisit(g, l, vertex) ==
    LET marked == [l.marked EXCEPT ![vertex] = TRUE]
    IN  [l EXCEPT !.marked = marked,
                  !.priority_queue =
                      LazyPushUnmarked(g, marked, l.priority_queue, vertex,
                                       IncidentEdges(g, vertex))]

\* LazyPrimMST.__init__, lines 17-23
LazyNew(g) ==
    LazyVisit(g, [mst |-> <<>>, priority_queue |-> <<>>,
                  marked |-> [v \in Vertices(g) |-> FALSE]], 0)

\* line 26: the while condition
LazyRunning(g, l) == l.priority_queue # <<>> /\ Len(l.mst) < g.n - 1

\* mutant of LazyStale: no popped edge is skipped
LazyStaleNever(l, v, w) == FALSE

\* line 32: both endpoints of the popped edge are marked already
LazyStale(l, v, w) == l.marked[v] /\ l.marked[w]

\* lines 27-43: one round of the loop that pops the edge at position pos
LazyIterate(g, l, pos) ==
    LET e == l.priority_queue[pos]
        v == Either(g, e)
        w == Other(g, e, v)
        l1 == [l EXCEPT !.priority_queue = RemoveAt(l.priority_queue, pos)]
    IN  IF LazyStale(l1, v, w) THEN l1
        ELSE LET l2 == [l1 EXCEPT !.mst = Append(l1.mst, e)]
                 l3 == IF ~l2.marked[v] THEN LazyVisit(g, l2, v) ELSE l2
             IN  IF ~l3.marked[w] THEN LazyVisit(g, l3, w) ELSE l3

\* LazyPrimMST.edges
LazyEdges(l) == l.mst

------------------------------------------------------------------------------
(* PrimMST  (minimum_spanning_tree/prim.py) *)

\* PrimMST.__init__, lines 18-26
PrimNew(g) ==
    [marked |-> [v \in Vertices(g) |-> FALSE],
     edge_to |-> [v \in Vertices(g) |-> None],
     dist_to |-> [v \in Vertices(g) |-> IF v = 0 THEN 0 ELSE Inf],
     priority_queue |-> PQInsert(PQNew(g.n), 0, 0)]

\* mutant of PrimImproves: the first edge found to a vertex is kept
PrimImprovesFirstOnly(g, p, e, w) == p.dist_to[w] = Inf

\* mutant of PrimImproves: an edge of the same weight is taken too
PrimImprovesOrEqual(g, p, e, w) == Weight(g, e) <= p.dist_to[w]

\* PrimMST._visit, line 48
PrimImproves(g, p, e, w) == Weight(g, e) < p.dist_to[w]

\* PrimMST._visit, lines 43-55: the body of the for loop for edge e
PrimScan(g, p, vertex_v, e) ==
    LET w == Other(g, e, vertex_v)
    IN  IF p.marked[w] THEN p
        ELSE IF PrimImproves(g, p, e, w)
        THEN [p EXCEPT !.edge_to[w] = e,
                       !.dist_to[w] = Weight(g, e),
                       !.priority_queue =
                           IF PQContains(p.priority_queue, w)
                           THEN PQDecreaseKey(p.priority_queue, w, Weight(g, e))
                           ELSE PQInsert(p.priority_queue, w, Weight(g, e))]
        ELSE p

RECURSIVE PrimScanAll(_, _, _, _)
PrimScanAll(g, p, vertex_v, es) ==
    IF es = <<>> THEN p
    ELSE PrimScanAll(g, PrimScan(g, p, vertex_v, Head(es)), vertex_v, Tail(es))

\* PrimMST._visit
PrimVisit(g, p, vertex_v) ==
    PrimScanAll(g, [p EXCEPT !.marked[vertex_v] = TRUE], vertex_v,
                IncidentEdges(g, vertex_v))

\* PrimMST._visit, lines 52-55: a call on the queue raises while the edges
\* es of vertex_v are scanned
RECURSIVE PrimScanAllRaises(_, _, _, _)
PrimScanAllRaises(g, p, vertex_v, es) ==
    IF es = <<>> THEN FALSE
    ELSE LET e == Head(es)
             w == Other(g, e, vertex_v)
         IN  \/ /\ ~p.marked[w]
                /\ PrimImproves(g, p, e, w)
                /\ IF PQContains(p.priority_queue, w)
                   THEN PQDecreaseKeyRaises(p.priority_queue, w, Weight(g, e))
                   ELSE PQInsertRaises(p.priority_queue)
             \/ PrimScanAllRaises(g, PrimScan(g, p, vertex_v, e), vertex_v, Tail(es))

\* line 29: del_min or a call of _visit on the queue raises
PrimIterateRaises(g, p) ==
    \/ PQDelMinRaises(p.priority_queue)
    \/ LET v == PQMinIndex(p.priority_queue)
       IN  PrimScanAllRaises(g, [p EXCEPT !.priority_queue = PQDelMin(p.priority_queue),
                                          !.marked[v] = TRUE],
                             v, IncidentEdges(g, v))

\* line 28: the while condition
PrimRunning(p) == PQNonEmpty(p.priority_queue)

\* line 29: one round of the loop
PrimIterate(g, p) ==
    PrimVisit(g, [p EXCEPT !.priority_queue = PQDelMin(p.priority_queue)],
              PQMinIndex(p.priority_queue))

\* PrimMST.edges
PrimEdges(g, p) == SelectSeq([v \in 1..g.n |-> p.edge_to[v - 1]], LAMBDA e : e # None)

------------------------------------------------------------------------------
(* Specification SpecMST: KruskalMST(graph), LazyPrimMST(graph) and         *)
(* PrimMST(graph) constructed one after the other on every graph of the     *)
(* bounds with weights -MaxMstW..MaxMstW and on TiedSquare.                 *)

InitMST ==
    /\ graph \in Graphs((-MaxMstW)..MaxMstW) \cup {TiedSquare}
    /\ mst = [kruskal |-> KruskalNew(graph), lazy |-> LazyNew(graph),
              prim |-> PrimNew(graph)]
    /\ op = "kruskal"
    /\ args = <<>>
    /\ ret = None
    /\ pqueue = Unused /\ uf = Unused /\ source = Unused /\ target = Unused
    /\ sp = Unused /\ ff = Unused

MSTOthers == <<args, ret, pqueue, uf, graph, source, target, sp, ff>>

\* one round of KruskalMST's loop
KruskalRound ==
    /\ op = "kruskal"
    /\ KruskalRunning(graph, mst.kruskal)
    /\ \E pos \in HeapMinPositions(graph, mst.kruskal.priority_queue) :
           mst' = [mst EXCEPT !.kruskal = KruskalIterate(graph, mst.kruskal, pos)]
    /\ UNCHANGED <<op, MSTOthers>>

\* KruskalMST's constructor returns; LazyPrimMST is constructed next
KruskalReturn ==
    /\ op = "kruskal"
    /\ ~KruskalRunning(graph, mst.kruskal)
    /\ op' = "lazy"
    /\ UNCHANGED <<mst, MSTOthers>>

\* one round of LazyPrimMST's loop
LazyRound ==
    /\ op = "lazy"
    /\ LazyRunning(graph, mst.lazy)
    /\ \E pos \in HeapMinPositions(graph, mst.lazy.priority_queue) :
           mst' = [mst EXCEPT !.lazy = LazyIterate(graph, mst.lazy, pos)]
    /\ UNCHANGED <<op, MSTOthers>>

\* LazyPrimMST's constructor returns; PrimMST is constructed next
LazyReturn ==
    /\ op = "lazy"
    /\ ~LazyRunning(graph, mst.lazy)
    /\ op' = "prim"
    /\ UNCHANGED <<mst, MSTOthers>>

\* one round of PrimMST's loop
PrimRound ==
    /\ op = "prim"
    /\ PrimRunning(mst.prim)
    /\ mst' = [mst EXCEPT !.prim = PrimIterate(graph, mst.prim)]
    /\ UNCHANGED <<op, MSTOthers>>

\* PrimMST's constructor returns
PrimReturn ==
    /\ op = "prim"
    /\ ~PrimRunning(mst.prim)
    /\ op' = "done"
    /\ UNCHANGED <<mst, MSTOthers>>

NextMST ==
    KruskalRound \/ KruskalReturn \/ LazyRound \/ LazyReturn \/ PrimRound \/ PrimReturn

SpecMST == InitMST /\ [][NextMST]_vars

\* C3: on a connected graph the edge lists of KruskalMST, LazyPrimMST and
\* PrimMST have the same total weight.
C3_SameTotalWeight ==
    op = "done" /\ IsConnected(graph) =>
        /\ ListWeight(graph, KruskalEdges(mst.kruskal))
               = ListWeight(graph, LazyEdges(mst.lazy))
        /\ ListWeight(graph, LazyEdges(mst.lazy))
               = ListWeight(graph, PrimEdges(graph, mst.prim))

\* on the triangle of three edges of equal weight Kruskal returns the edges
\* 0-1, 1-2 and Prim the edges 0-1, 0-2: different sets, equal weight
C3_Witness ==
    /\ op = "done"
    /\ graph = Digraph(3, <<Edge(0, 1, 1), Edge(1, 2, 1), Edge(0, 2, 1)>>)
    /\ KruskalEdges(mst.kruskal) = <<1, 2>>
    /\ PrimEdges(graph, mst.prim) = <<1, 3>>

\* the least total weight of a spanning tree of g
IsMinimumSpanningTree(g, F) ==
    /\ IsSpanningTree(g, F)
    /\ \A T \in SpanningTrees(g) : SetWeight(g, F) <= SetWeight(g, T)

\* C4: on a connected graph the edges returned by each of the three
\* classes form a spanning tree whose total weight is at most that of
\* every spanning tree of the graph.
C4_MinimumSpanningTree ==
    op = "done" /\ IsConnected(graph) =>
        /\ IsMinimumSpanningTree(graph, ListSet(KruskalEdges(mst.kruskal)))
        /\ IsMinimumSpanningTree(graph, ListSet(LazyEdges(mst.lazy)))
        /\ IsMinimumSpanningTree(graph, ListSet(PrimEdges(graph, mst.prim)))

\* TiedSquare: all three return three edges of weight 1 and leave out the
\* diagonal, and Prim has lowered the key of a queued vertex
C4_Witness ==
    /\ op = "done"
    /\ graph = TiedSquare
    /\ ListWeight(graph, KruskalEdges(mst.kruskal)) = 3
    /\ ListWeight(graph, LazyEdges(mst.lazy)) = 3
    /\ ListWeight(graph, PrimEdges(graph, mst.prim)) = 3
    /\ mst.prim.edge_to[2] = 2

\* no edge of F joins two vertices that the other edges of F join already
IsForest(g, F) ==
    \A e \in F : g.edges[e].w \notin Closure(g, F \ {e}, {g.edges[e].v})

\* every vertex is an endpoint of an edge of F (of a graph with one vertex:
\* nothing is asked)
TouchesEveryVertex(g, F) ==
    g.n > 1 => \A v \in Vertices(g) : \E e \in F : v \in {g.edges[e].v, g.edges[e].w}

\* the list es of edges has n-1 entries, no edge twice, no cycle, and
\* touches every vertex
IsTreeList(g, es) ==
    /\ Len(es) = g.n - 1
    /\ Cardinality(ListSet(es)) = Len(es)
    /\ IsForest(g, ListSet(es))
    /\ TouchesEveryVertex(g, ListSet(es))

\* C12: on a connected graph with n vertices the list of edges returned by
\* each of KruskalMST, LazyPrimMST and PrimMST has exactly n-1 edges, holds
\* no cycle and touches every vertex.
C12_SpanningTreeShape ==
    op = "done" /\ IsConnected(graph) =>
        /\ IsTreeList(graph, KruskalEdges(mst.kruskal))
        /\ IsTreeList(graph, LazyEdges(mst.lazy))
        /\ IsTreeList(graph, PrimEdges(graph, mst.prim))

\* a connected graph whose lightest edge is a self-loop: the three classes
\* return the two other edges
C12_Witness ==
    /\ op = "done"
    /\ graph = Digraph(3, <<Edge(1, 1, -1), Edge(0, 1, 0), Edge(1, 2, 1)>>)
    /\ ListSet(KruskalEdges(mst.kruskal)) = {2, 3}
    /\ ListSet(LazyEdges(mst.lazy)) = {2, 3}
    /\ ListSet(PrimEdges(graph, mst.prim)) = {2, 3}

\* the number of vertices that the list marked holds as True
MarkedCount(marked) == Cardinality({v \in DOMAIN marked : marked[v]})

\* the round that the constructor at work is about to run raises: Kruskal's
\* connected or union is given a site out of range, Prim's queue refuses a
\* call (LazyPrimMST calls heapq and its own lists only)
RoundRaises ==
    \/ /\ op = "kruskal" /\ KruskalRunning(graph, mst.kruskal)
       /\ \E pos \in HeapMinPositions(graph, mst.kruskal.priority_queue) :
              LET e == mst.kruskal.priority_queue[pos]
                  v == Either(graph, e)
                  w == Other(graph, e, v)
                  u == mst.kruskal.union_find
              IN  UFRangeRaises(u, v, w) \/ UFRootRaises(u, v) \/ UFRootRaises(u, w)
    \/ /\ op = "prim" /\ PrimRunning(mst.prim)
       /\ PrimIterateRaises(graph, mst.prim)

\* every round brings its loop nearer to its end: Kruskal's heap gets
\* shorter, LazyPrim marks a vertex or else shortens its heap, Prim marks a
\* vertex
RoundProgress ==
    /\ op = "kruskal" /\ op' = "kruskal" =>
           Len(mst'.kruskal.priority_queue) < Len(mst.kruskal.priority_queue)
    /\ op = "lazy" /\ op' = "lazy" =>
           \/ MarkedCount(mst'.lazy.marked) > MarkedCount(mst.lazy.marked)
           \/ /\ mst'.lazy.marked = mst.lazy.marked
              /\ Len(mst'.lazy.priority_queue) < Len(mst.lazy.priority_queue)
    /\ op = "prim" /\ op' = "prim" =>
           MarkedCount(mst'.prim.marked) > MarkedCount(mst.prim.marked)

\* the list es has no edge twice, no cycle, and fewer than n-1 entries
IsSmallForestList(g, es) ==
    /\ Cardinality(ListSet(es)) = Len(es)
    /\ IsForest(g, ListSet(es))
    /\ Len(es) < g.n - 1

\* the edges of es join vertex 0 to all of its component and touch no
\* vertex outside it
SpansComponentOfZero(g, es) ==
    /\ Closure(g, ListSet(es), {0}) = Closure(g, EdgeIds(g), {0})
    /\ \A e \in ListSet(es) :
           {g.edges[e].v, g.edges[e].w} \subseteq Closure(g, EdgeIds(g), {0})

\* C27: on a graph that is not connected the three constructors complete
\* without raising (no round raises, every round brings its loop nearer to
\* its end) and each returns an acyclic edge list with fewer than n-1 edges;
\* Kruskal's joins every vertex to all of its component, those of the two
\* Prim variants span the component of vertex 0 and nothing else.
C27_DisconnectedGraphs ==
    [][~IsConnected(graph) =>
        /\ ~RoundRaises
        /\ RoundProgress
        /\ op' = "done" =>
               /\ IsSmallForestList(graph, KruskalEdges(mst'.kruskal))
               /\ IsSmallForestList(graph, LazyEdges(mst'.lazy))
               /\ IsSmallForestList(graph, PrimEdges(graph, mst'.prim))
               /\ \A v \in Vertices(graph) :
                      Closure(graph, ListSet(KruskalEdges(mst'.kruskal)), {v})
                          = Closure(graph, EdgeIds(graph), {v})
               /\ SpansComponentOfZero(graph, LazyEdges(mst'.lazy))
               /\ SpansComponentOfZero(graph, PrimEdges(graph, mst'.prim))
      ]_vars

\* the triangle-free graph 1-2 with 0 on its own, twice the edge 1-2:
\* Kruskal returns the lighter edge 1-2, the Prim variants return nothing
C27_Witness ==
    /\ op = "done"
    /\ graph = Digraph(3, <<Edge(1, 2, 1), Edge(2, 1, 0), Edge(0, 0, -1)>>)
    /\ KruskalEdges(mst.kruskal) = <<2>>
    /\ LazyEdges(mst.lazy) = <<>>
    /\ PrimEdges(graph, mst.prim) = <<>>

------------------------------------------------------------------------------
(* Flow networks  (flow_network/flow_edge.py, flow_network/flow_network.py) *)
(* A network is [n, edges]; the field weight of an edge is its capacity.    *)
(* The flows of the FlowEdge objects are the field flow of ff.              *)

\* capacities of the enumerated flow networks: 1..MaxCap
MaxCap == 2

\* FlowEdge.capacity
Capacity(g, e) == g.edges[e].weight

\* FlowNetwork.adjacents: add_edge appends the edge to the lists of both
\* endpoints
FlowAdjacents(g, v) == IdsAt(g, v, 1)

\* FlowEdge.other (vertex is an endpoint of e)
FlowOther(g, e, vertex) == IF vertex = g.edges[e].v THEN g.edges[e].w ELSE g.edges[e].v

\* FlowEdge.residual_capacity_to (vertex is an endpoint of e)
ResidualCapacityTo(g, flow, e, vertex) ==
    IF vertex = g.edges[e].v THEN flow[e] ELSE Capacity(g, e) - flow[e]

\* mutant of AddResidualFlowTo: the two branches are swapped
AddResidualFlowToSwapped(g, flow, e, vertex, delta) ==
    IF vertex = g.edges[e].v
    THEN [flow EXCEPT ![e] = Add(flow[e], delta)]
    ELSE [flow EXCEPT ![e] = IF delta = Inf THEN -Inf ELSE flow[e] - delta]

\* mutant of AddResidualFlowTo: flow is never taken back from an edge
AddResidualFlowToForwardOnly(g, flow, e, vertex, delta) ==
    IF vertex = g.edges[e].v
    THEN flow
    ELSE [flow EXCEPT ![e] = Add(flow[e], delta)]

\* FlowEdge.add_residual_flow_to (vertex is an endpoint of e)
AddResidualFlowTo(g, flow, e, vertex, delta) ==
    IF vertex = g.edges[e].v
    THEN [flow EXCEPT ![e] = IF delta = Inf THEN -Inf ELSE flow[e] - delta]
    ELSE [flow EXCEPT ![e] = Add(flow[e], delta)]

\* the documented scenario: 0->1 of capacity 5, 1->2 of capacity 3
ScenarioNetwork == Digraph(3, <<Edge(0, 1, 5), Edge(1, 2, 3)>>)

\* a network with edges of capacity 0 on the only paths to vertex 3
ZeroCapacityNetwork ==
    Digraph(4, <<Edge(0, 1, 2), Edge(1, 3, 0), Edge(0, 2, 0), Edge(2, 3, 2),
                 Edge(1, 2, 1)>>)

\* a network whose maximum flow from 0 to 5 needs the flow that the first
\* shortest augmenting path 0->1->2->5 puts on 1->2 to be taken back
DetourNetwork ==
    Digraph(6, <<Edge(0, 1, 1), Edge(1, 2, 1), Edge(1, 4, 1), Edge(2, 5, 1),
                 Edge(4, 5, 1), Edge(0, 3, 1), Edge(3, 2, 1)>>)

------------------------------------------------------------------------------
(* FordFulkerson  (flow_network/ford_fulkerson.py) *)

\* FordFulkerson.__init__, lines 19-21, on a network whose flows are zero.
\* bottle and current are the locals of the loop body.
FFNew(g) ==
    [edge_to |-> [v \in Vertices(g) |-> None],
     marked  |-> [v \in Vertices(g) |-> FALSE],
     value   |-> 0,
     flow    |-> [e \in EdgeIds(g) |-> 0],
     bottle  |-> Inf,
     current |-> None]

\* _has_augmenting_path, lines 81-86: the for loop over the edges es of
\* vertex_v; s is [edge_to, marked, queue]
RECURSIVE FFScan(_, _, _, _, _)
FFScan(g, flow, s, vertex_v, es) ==
    IF es = <<>> THEN s
    ELSE LET edge == Head(es)
             vertex_w == FlowOther(g, edge, vertex_v)
         IN  IF ResidualCapacityTo(g, flow, edge, vertex_w) > 0 /\ ~s.marked[vertex_w]
             THEN FFScan(g, flow,
                         [edge_to |-> [s.edge_to EXCEPT ![vertex_w] = edge],
                          marked  |-> [s.marked EXCEPT ![vertex_w] = TRUE],
                          queue   |-> Append(s.queue, vertex_w)],
                         vertex_v, Tail(es))
             ELSE FFScan(g, flow, s, vertex_v, Tail(es))

\* _has_augmenting_path, lines 79-86: the while loop
RECURSIVE FFBfs(_, _, _)
FFBfs(g, flow, s) ==
    IF s.queue = <<>> THEN s
    ELSE FFBfs(g, flow,
               FFScan(g, flow, [s EXCEPT !.queue = Tail(s.queue)], Head(s.queue),
                      FlowAdjacents(g, Head(s.queue))))

\* FordFulkerson._has_augmenting_path: the object after the call
FFHasAugmentingPath(g, f, s) ==
    LET r == FFBfs(g, f.flow,
                   [edge_to |-> [v \in Vertices(g) |-> None],
                    marked  |-> [v \in Vertices(g) |-> v = s],
                    queue   |-> <<s>>])
    IN  [f EXCEPT !.edge_to = r.edge_to, !.marked = r.marked]

\* mutant of FFNarrow: the residual capacity of the edge at hand replaces
\* the bottleneck
FFNarrowLast(bottle, residual) == residual

\* line 28: bottle = min(bottle, residual capacity)
FFNarrow(bottle, residual) == Min(bottle, residual)

\* lines 24-29: the bottleneck of the path from current back to s
RECURSIVE FFBottleneck(_, _, _, _, _)
FFBottleneck(g, f, s, current, bottle) ==
    IF current = s THEN bottle
    ELSE FFBottleneck(g, f, s, FlowOther(g, f.edge_to[current], current),
             FFNarrow(bottle,
                      ResidualCapacityTo(g, f.flow, f.edge_to[current], current)))

\* lines 33-34: one round of the second while loop
FFAugment(g, f) ==
    [f EXCEPT !.flow = AddResidualFlowTo(g, f.flow, f.edge_to[f.current], f.current,
                                         f.bottle),
              !.current = FlowOther(g, f.edge_to[f.current], f.current)]

\* FordFulkerson.in_cut
InCut(f) == {v \in DOMAIN f.marked : f.marked[v]}

------------------------------------------------------------------------------
(* Specification SpecFF: FordFulkerson(graph, source, target) on every      *)
(* network of the bounds with capacities 1..MaxCap and every source and     *)
(* target, on ScenarioNetwork, and from vertex 0 to the last vertex of      *)
(* ZeroCapacityNetwork and DetourNetwork.                                   *)

InitFF ==
    /\ graph \in Digraphs(1..MaxCap)
                 \cup {ScenarioNetwork, DetourNetwork, ZeroCapacityNetwork}
    /\ source \in Vertices(graph)
    /\ target \in Vertices(graph)
    /\ graph.n > MaxV => source = 0 /\ target = graph.n - 1
    /\ ff = FFNew(graph)
    /\ op = "new"
    /\ args = <<>>
    /\ ret = None
    /\ pqueue = Unused /\ uf = Unused /\ sp = Unused /\ mst = Unused

FFOthers == <<args, ret, pqueue, uf, graph, source, target, sp, mst>>

\* line 23: _has_augmenting_path finds the target
FFPathFound ==
    /\ op \in {"new", "value"}
    /\ LET f == FFHasAugmentingPath(graph, ff, source)
       IN  /\ f.marked[target] = TRUE
           /\ ff' = f
    /\ op' = "path"
    /\ UNCHANGED FFOthers

\* line 23: _has_augmenting_path does not find the target; the constructor
\* returns
FFReturn ==
    /\ op \in {"new", "value"}
    /\ LET f == FFHasAugmentingPath(graph, ff, source)
       IN  /\ f.marked[target] = FALSE
           /\ ff' = f
    /\ op' = "done"
    /\ UNCHANGED FFOthers

\* lines 24-31: the bottleneck is computed, current is the target again
FFFindBottleneck ==
    /\ op = "path"
    /\ ff' = [ff EXCEPT !.bottle = FFBottleneck(graph, ff, source, target, Inf),
                        !.current = target]
    /\ op' = "bottle"
    /\ UNCHANGED FFOthers

\* line 33: one add_residual_flow_to call
FFAugmentEdge ==
    /\ op \in {"bottle", "augment"}
    /\ ff.current # source
    /\ ff' = FFAugment(graph, ff)
    /\ op' = "augment"
    /\ UNCHANGED FFOthers

\* line 36: self._value += bottle
FFAddValue ==
    /\ op \in {"bottle", "augment"}
    /\ ff.current = source
    /\ ff' = [ff EXCEPT !.value = Add(ff.value, ff.bottle)]
    /\ op' = "value"
    /\ UNCHANGED FFOthers

NextFF == FFPathFound \/ FFReturn \/ FFFindBottleneck \/ FFAugmentEdge \/ FFAddValue

SpecFF == InitFF /\ [][NextFF]_vars

\* the capacity of the cut (S, V \ S): the capacities of the edges from S
\* to the other vertices
RECURSIVE CutCapacityFrom(_, _, _)
CutCapacityFrom(g, S, e) ==
    IF e > Len(g.edges) THEN 0
    ELSE (IF g.edges[e].v \in S /\ g.edges[e].w \notin S THEN Capacity(g, e) ELSE 0)
         + CutCapacityFrom(g, S, e + 1)

CutCapacity(g, S) == CutCapacityFrom(g, S, 1)

\* C2: with source # target, at termination value is the capacity of the
\* cut whose source side is in_cut, and in_cut holds the source and not the
\* target.
C2_ValueEqualsCutCapacity ==
    op = "done" /\ source # target =>
        /\ ff.value = CutCapacity(graph, InCut(ff))
        /\ source \in InCut(ff)
        /\ target \notin InCut(ff)

\* the documented scenario: value 3 and in_cut {0, 1}
C2_Witness ==
    /\ op = "done"
    /\ graph = ScenarioNetwork
    /\ source = 0 /\ target = 2
    /\ ff.value = 3
    /\ InCut(ff) = {0, 1}

\* C11: in every state of the construction, so after every single
\* add_residual_flow_to call as well, the flow of every edge is at least 0
\* and at most the capacity of the edge.
C11_FlowWithinCapacity ==
    \A e \in EdgeIds(graph) : 0 <= ff.flow[e] /\ ff.flow[e] <= Capacity(graph, e)

\* DetourNetwork in the middle of the second augmentation: the call that
\* takes the unit of flow back from the edge 1->2 has just been made
C11_Witness ==
    /\ op = "augment"
    /\ graph = DetourNetwork
    /\ ff.value = 1
    /\ ff.flow[1] = 1
    /\ ff.flow[2] = 0
    /\ ff.flow[7] = 1

\* the capacities of all the edges of g
TotalCapacity(g) == SumSeq([e \in 1..Len(g.edges) |-> Capacity(g, e)])

\* one more augmentation is complete (line 36 has run): the value has grown
\* by at least 1 and is at most the capacity of all the edges
AugmentationProgress ==
    op' = "value" =>
        /\ ff'.value >= ff.value + 1
        /\ ff'.value <= TotalCapacity(graph)

\* C13: for every network with non-negative integer capacities and every
\* source and target the construction ends after finitely many
\* augmentations: every augmentation raises the value by at least 1 and the
\* value never exceeds the capacity of all the edges, so the search fails to
\* reach the target after at most that many augmentations.
C13_ConstructionTerminates == [][AugmentationProgress]_vars

\* the same for the constructions whose source and target differ
ProgressWhenDistinct == [][source # target => AugmentationProgress]_vars

\* the flow on the edges that enter v, and on the edges that leave v
InFlow(g, flow, v) ==
    SumSeq([e \in 1..Len(g.edges) |-> IF g.edges[e].w = v THEN flow[e] ELSE 0])

OutFlow(g, flow, v) ==
    SumSeq([e \in 1..Len(g.edges) |-> IF g.edges[e].v = v THEN flow[e] ELSE 0])

\* C29: with source # target, after every completed augmentation (line 36
\* has run) and at the return, the flow that enters a vertex other than the
\* source and the target equals the flow that leaves it, and value is the
\* flow that leaves the source less the flow that enters it.
C29_FlowConservation ==
    source # target /\ op \in {"value", "done"} =>
        /\ \A v \in Vertices(graph) \ {source, target} :
               InFlow(graph, ff.flow, v) = OutFlow(graph, ff.flow, v)
        /\ ff.value = OutFlow(graph, ff.flow, source) - InFlow(graph, ff.flow, source)

\* DetourNetwork after the second augmentation, which went along
\* 0->3->2, back over 1->2, and 1->4->5: the unit of flow on 1->2 is gone
C29_Witness ==
    /\ op = "value"
    /\ graph = DetourNetwork
    /\ source = 0 /\ target = 5
    /\ ff.value = 2
    /\ ff.flow = [e \in 1..7 |-> IF e = 2 THEN 0 ELSE 1]

------------------------------------------------------------------------------
(* EdgeWeightedCycleFinder  (shortest_path/cycle_finder.py) *)
(* The object is [marked, on_stack, edge_to, cycle]; cycle is the deque as  *)
(* a sequence of vertices.                                                  *)

\* EdgeWeightedCycleFinder.has_cycle
CFHasCycle(c) == c.cycle # <<>>

\* _get_cycle_path, lines 74-77: the vertices from current back along
\* edge_to until None, in the order the appendleft calls leave them.  fuel
\* bounds the walk, which does not end when the edge_to links form a cycle.
RECURSIVE CFBackTo(_, _, _)
CFBackTo(c, current, fuel) ==
    IF current = None \/ fuel = 0 THEN <<>>
    ELSE CFBackTo(c, c.edge_to[current], fuel - 1) \o <<current>>

\* mutant of CFGetCyclePath: the closing vertex is not appended
CFGetCyclePathOpen(c, vertex, adjacent) ==
    [c EXCEPT !.cycle = CFBackTo(c, vertex, Cardinality(DOMAIN c.edge_to)) \o c.cycle]

\* EdgeWeightedCycleFinder._get_cycle_path
CFGetCyclePath(c, vertex, adjacent) ==
    [c EXCEPT !.cycle = (CFBackTo(c, vertex, Cardinality(DOMAIN c.edge_to)) \o c.cycle)
                        \o <<adjacent>>]

\* EdgeWeightedCycleFinder._dfs and the for loop of its lines 49-60 over the
\* edges es of vertex_v that are still to visit
RECURSIVE CFDfs(_, _, _)
RECURSIVE CFDfsLoop(_, _, _, _)
CFDfsLoop(g, c, vertex_v, es) ==
    IF es = <<>> THEN [c EXCEPT !.on_stack[vertex_v] = FALSE]
    ELSE IF CFHasCycle(c) THEN c
    ELSE LET vertex_w == ToEdge(g, Head(es))
         IN  IF ~c.marked[vertex_w]
             THEN CFDfsLoop(g, CFDfs(g, [c EXCEPT !.edge_to[vertex_w] = vertex_v],
                                     vertex_w),
                            vertex_v, Tail(es))
             ELSE IF c.on_stack[vertex_w]
             THEN CFDfsLoop(g, CFGetCyclePath(c, vertex_v, vertex_w), vertex_v,
                            Tail(es))
             ELSE CFDfsLoop(g, c, vertex_v, Tail(es))

CFDfs(g, c, vertex_v) ==
    CFDfsLoop(g, [c EXCEPT !.marked[vertex_v] = TRUE, !.on_stack[vertex_v] = TRUE],
              vertex_v, Adjacents(g, vertex_v))

\* EdgeWeightedCycleFinder.__init__, lines 22-26: the while loop from vertex
RECURSIVE CFScanFrom(_, _, _)
CFScanFrom(g, c, vertex) ==
    IF vertex < g.n /\ ~CFHasCycle(c)
    THEN CFScanFrom(g, IF ~c.marked[vertex] THEN CFDfs(g, c, vertex) ELSE c, vertex + 1)
    ELSE c

\* EdgeWeightedCycleFinder.__init__
CycleFinder(g) ==
    CFScanFrom(g, [marked   |-> [v \in Vertices(g) |-> FALSE],
                   on_stack |-> [v \in Vertices(g) |-> FALSE],
                   edge_to  |-> [v \in Vertices(g) |-> None],
                   cycle    |-> <<>>], 0)

\* get_cycle returns None when the deque is empty and the list of its
\* vertices otherwise: None is the empty sequence here
NoCycle == <<>>

\* EdgeWeightedCycleFinder.get_cycle
CFGetCycle(c) == IF c.cycle = <<>> THEN NoCycle ELSE c.cycle

------------------------------------------------------------------------------
(* BellmanFord  (shortest_path/bellman_ford.py) *)
(* todo is the iterator of the for loop of _relax; subgraph is the list of  *)
(* the edges that the last _find_negative_cycle call put into its subgraph. *)

\* edge weights of the graphs given to BellmanFord: -MaxBfW..MaxBfW
MaxBfW == 1

\* the model stops a construction after MaxCost relaxations
MaxCost == 40

\* BellmanFord.__init__, lines 20-28
BFNew(g, s) ==
    [edge_to  |-> [v \in Vertices(g) |-> None],
     dist_to  |-> [v \in Vertices(g) |-> IF v = s THEN 0 ELSE Inf],
     on_queue |-> [v \in Vertices(g) |-> v = s],
     cost     |-> 0,
     cycle    |-> NoCycle,
     queue    |-> <<s>>,
     todo     |-> <<>>,
     subgraph |-> <<>>]

\* BellmanFord.has_negative_cycle
BFHasNegativeCycle(b) == b.cycle # NoCycle

\* _find_negative_cycle, lines 76-79: the edges of edge_to that are not None
BFParentEdges(g, b) ==
    SelectSeq([v \in 1..g.n |-> b.edge_to[v - 1]], LAMBDA e : e # None)

\* BellmanFord._find_negative_cycle
BFFindNegativeCycle(g, b) ==
    LET ids == BFParentEdges(g, b)
        subgraph == Digraph(g.n, [k \in 1..Len(ids) |-> g.edges[ids[k]]])
    IN  [b EXCEPT !.cycle = CFGetCycle(CycleFinder(subgraph)), !.subgraph = ids]

\* mutant of BFImproves: an edge that gives the same distance is taken too
BFImprovesOrEqual(g, b, e) ==
    b.dist_to[ToEdge(g, e)] >= Add(Weight(g, e), b.dist_to[FromEdge(g, e)])

\* BellmanFord._relax, line 56
BFImproves(g, b, e) ==
    b.dist_to[ToEdge(g, e)] > Add(Weight(g, e), b.dist_to[FromEdge(g, e)])

\* BellmanFord._relax, line 66
BFCheckDue(g, cost) == cost % g.n = 0

\* BellmanFord._relax, lines 54-67: the body of the for loop for edge e
BFRelax(g, b, e) ==
    LET w  == ToEdge(g, e)
        b1 == IF BFImproves(g, b, e)
              THEN [b EXCEPT !.dist_to[w] = Add(Weight(g, e), b.dist_to[FromEdge(g, e)]),
                             !.edge_to[w] = e,
                             !.queue = IF ~b.on_queue[w] THEN Append(b.queue, w)
                                       ELSE b.queue,
                             !.on_queue[w] = TRUE]
              ELSE b
        b2 == [b1 EXCEPT !.cost = b1.cost + 1]
    IN  IF BFCheckDue(g, b2.cost) THEN BFFindNegativeCycle(g, b2) ELSE b2

\* lines 31-33: a vertex is taken from the queue and _relax starts
BFPop(g, b) ==
    [b EXCEPT !.queue = Tail(b.queue),
              !.on_queue[Head(b.queue)] = FALSE,
              !.todo = Adjacents(g, Head(b.queue))]

\* line 30: the while condition
BFRunning(b) == b.queue # <<>> /\ ~BFHasNegativeCycle(b)

\* BellmanFord.negative_cycle
BFNegativeCycle(b) == b.cycle

\* BellmanFord.dist_to
BFDistTo(b, v) == IF ~BFHasNegativeCycle(b) THEN b.dist_to[v] ELSE Inf

\* BellmanFord.has_path_to, line 119
BFHasPathTo(b, v) == b.dist_to[v] < Inf

------------------------------------------------------------------------------
(* Specification SpecBF: BellmanFord(graph, source) on every digraph of the *)
(* bounds with weights -MaxBfW..MaxBfW and every source.                    *)

\* a digraph without negative cycle where vertex 1 is taken from the queue
\* a second time, after the edge 2->1 has lowered its distance
RevisitDigraph ==
    Digraph(4, <<Edge(0, 1, 1), Edge(0, 2, 0), Edge(1, 3, 0), Edge(2, 1, -1)>>)

\* a digraph where the search finds the cycle 3->3 in the middle of the for
\* loop of vertex 0 and a later search of the same loop finds none
ResetDigraph ==
    Digraph(4, <<Edge(0, 3, 0), Edge(2, 1, -1), Edge(2, 0, 1), Edge(2, 3, 0),
                 Edge(0, 2, -1), Edge(3, 3, -1), Edge(2, 3, 1), Edge(2, 3, -1)>>)

InitBF ==
    /\ graph \in Digraphs((-MaxBfW)..MaxBfW) \cup {RevisitDigraph, ResetDigraph}
    /\ source \in Vertices(graph)
    /\ sp = BFNew(graph, source)
    /\ op = "new"
    /\ args = <<>>
    /\ ret = None
    /\ pqueue = Unused /\ uf = Unused /\ target = Unused
    /\ mst = Unused /\ ff = Unused

\* lines 31-33: popleft, and the for loop of _relax starts
BFPopVertex ==
    /\ op # "done"
    /\ sp.todo = <<>>
    /\ BFRunning(sp)
    /\ sp' = BFPop(graph, sp)
    /\ op' = "pop"
    /\ UNCHANGED SPOthers

\* lines 54-67: one round of the for loop of _relax
BFRelaxEdge ==
    /\ op # "done"
    /\ sp.todo # <<>>
    /\ sp.cost < MaxCost
    /\ sp' = [BFRelax(graph, sp, Head(sp.todo)) EXCEPT !.todo = Tail(sp.todo)]
    /\ op' = "relax"
    /\ UNCHANGED SPOthers

\* line 30: the queue is empty or a cycle was found; the constructor returns
BFReturn ==
    /\ op # "done"
    /\ sp.todo = <<>>
    /\ ~BFRunning(sp)
    /\ op' = "done"
    /\ UNCHANGED <<sp, SPOthers>>

NextBF == BFPopVertex \/ BFRelaxEdge \/ BFReturn

SpecBF == InitBF /\ [][NextBF]_vars

\* the edge of the list ids that goes from v to w
JoiningEdges(g, ids, v, w) ==
    {k \in 1..Len(ids) : FromEdge(g, ids[k]) = v /\ ToEdge(g, ids[k]) = w}

\* the vertex list c is a closed walk along edges of ids, one edge of ids
\* for every step, and the weights of these edges sum to less than 0
IsNegativeClosedWalk(g, ids, c) ==
    /\ Len(c) >= 2
    /\ c[1] = c[Len(c)]
    /\ \A i \in 1..(Len(c) - 1) : Cardinality(JoiningEdges(g, ids, c[i], c[i + 1])) = 1
    /\ SumSeq([i \in 1..(Len(c) - 1) |->
                  Weight(g, ids[CHOOSE k \in JoiningEdges(g, ids, c[i], c[i + 1]) : TRUE])]) < 0

C8_ShortestDistances ==
    (op = "done" /\ ~NegativeCycleReachable(graph, source)) =>
        /\ ~BFHasNegativeCycle(sp)
        /\ \A v \in Vertices(graph) :
               Reachable(graph, source, v) =>
                   BFDistTo(sp, v) = ShortestDist(graph, source)[v]
        /\ (\A e \in EdgeIds(graph) : Weight(graph, e) >= 0) =>
               \A v \in Vertices(graph) :
                   BFDistTo(sp, v) =
                       DijkstraRun(graph, DijkstraNew(graph, source)).dist_to[v]

\* on RevisitDigraph vertex 1 is relaxed twice and the distances are final
C8_Witness ==
    /\ op = "done"
    /\ graph = RevisitDigraph /\ source = 0
    /\ ~BFHasNegativeCycle(sp)
    /\ sp.cost = 5
    /\ sp.dist_to = [v \in 0..3 |-> IF v \in {1, 3} THEN -1 ELSE 0]

\* has_path_to never names a vertex without a path, and is exact when the
\* constructor ends without a detected cycle
HasPathToSound ==
    /\ \A v \in Vertices(graph) :
           BFHasPathTo(sp, v) => Reachable(graph, source, v)
    /\ (op = "done" /\ ~BFHasNegativeCycle(sp)) =>
           \A v \in Vertices(graph) :
               Reachable(graph, source, v) => BFHasPathTo(sp, v)

\* C19: after construction has_path_to(v) is true exactly for the vertices
\* v reachable from the source, whether or not a negative cycle was
\* detected.
C19_HasPathToIsReachability ==
    op = "done" =>
        \A v \in Vertices(graph) :
            BFHasPathTo(sp, v) <=> Reachable(graph, source, v)

\* C21: once a check has found a cycle in the parent-pointer subgraph the
\* algorithm halts: no further edge is relaxed (cost stays), no further
\* check is run (cycle and subgraph stay), and dist_to and edge_to are not
\* modified.
C21_HaltsOnDetection ==
    [][BFHasNegativeCycle(sp) =>
        /\ sp'.cost = sp.cost
        /\ sp'.cycle = sp.cycle /\ sp'.subgraph = sp.subgraph
        /\ sp'.dist_to = sp.dist_to /\ sp'.edge_to = sp.edge_to
      ]_vars

\* what the while condition of line 30 gives: once a cycle is recorded no
\* further vertex is taken from the queue
NoPopAfterDetection == [][BFHasNegativeCycle(sp) => op' # "pop"]_vars

\* C28: has_negative_cycle is monotone during one construction: once a
\* check has recorded a cycle no later step resets it to 'no cycle'.
C28_DetectionIsMonotone ==
    [][BFHasNegativeCycle(sp) => BFHasNegativeCycle(sp')]_vars

\* the step that takes the record back is a relaxation of the for loop that
\* was running when the cycle was recorded, never a later loop
ResetOnlyWithinLoop ==
    [][BFHasNegativeCycle(sp) /\ ~BFHasNegativeCycle(sp') => op = "relax" /\ op' = "relax"]_vars

------------------------------------------------------------------------------
(* TopologicalOrder  (shortest_path/topological_order.py) *)
(* The object is [marked, reverse_postorder].                               *)

\* TopologicalOrder._dfs and the for loop of its lines 32-35 over the edges
\* es of vertex that are still to visit
RECURSIVE TopoDfs(_, _, _)
RECURSIVE TopoDfsLoop(_, _, _, _)
TopoDfsLoop(g, t, vertex, es) ==
    IF es = <<>>
    THEN [t EXCEPT !.reverse_postorder = Append(t.reverse_postorder, vertex)]
    ELSE LET adjacent == ToEdge(g, Head(es))
         IN  TopoDfsLoop(g, IF ~t.marked[adjacent] THEN TopoDfs(g, t, adjacent) ELSE t,
                         vertex, Tail(es))

TopoDfs(g, t, vertex) ==
    TopoDfsLoop(g, [t EXCEPT !.marked[vertex] = TRUE], vertex, Adjacents(g, vertex))

\* TopologicalOrder.__init__, lines 19-21: the for loop from vertex
RECURSIVE TopoScanFrom(_, _, _)
TopoScanFrom(g, t, vertex) ==
    IF vertex < g.n
    THEN TopoScanFrom(g, IF ~t.marked[vertex] THEN TopoDfs(g, t, vertex) ELSE t,
                      vertex + 1)
    ELSE t

\* TopologicalOrder.__init__
TopologicalOrder(g) ==
    TopoScanFrom(g, [marked            |-> [v \in Vertices(g) |-> FALSE],
                     reverse_postorder |-> <<>>], 0)

\* mutant of TopoGetOrder: the list is returned as the dfs left it
TopoGetOrderUnreversed(t) == t.reverse_postorder

\* TopologicalOrder.get_order
TopoGetOrder(t) == Reverse(t.reverse_postorder)

------------------------------------------------------------------------------
(* AcyclicSP  (shortest_path/acyclic_sp.py) *)
(* order and todo are the iterators of the two for loops of __init__: the   *)
(* vertices and the edges still to come.  relaxed is the log of the _relax  *)
(* calls made so far.                                                       *)

\* AcyclicSP.__init__, lines 18-23
AcyclicNew(g, s) ==
    [edge_to |-> [v \in Vertices(g) |-> None],
     dist_to |-> [v \in Vertices(g) |-> IF v = s THEN 0 ELSE Inf],
     order   |-> TopoGetOrder(TopologicalOrder(g)),
     todo    |-> <<>>,
     relaxed |-> <<>>]

\* AcyclicSP._relax, line 38
AcyclicImproves(g, a, e) ==
    a.dist_to[ToEdge(g, e)] > Add(Weight(g, e), a.dist_to[FromEdge(g, e)])

\* AcyclicSP._relax
AcyclicRelax(g, a, e) ==
    LET a1 == IF AcyclicImproves(g, a, e)
              THEN [a EXCEPT !.dist_to[ToEdge(g, e)] =
                                 Add(Weight(g, e), a.dist_to[FromEdge(g, e)]),
                             !.edge_to[ToEdge(g, e)] = e]
              ELSE a
    IN  [a1 EXCEPT !.relaxed = Append(a1.relaxed, e)]

\* AcyclicSP.dist_to
AcyclicDistTo(a, v) == a.dist_to[v]

------------------------------------------------------------------------------
(* Specification SpecAcyclic: AcyclicSP(graph, source) on every acyclic     *)
(* digraph of the bounds with weights -MaxBfW..MaxBfW and every source.     *)

\* the vertices that a walk of at most k edges reaches from the set S
RECURSIVE ReachIn(_, _, _)
ReachIn(g, S, k) ==
    IF k = 0 THEN S
    ELSE ReachIn(g, S \cup {ToEdge(g, e) : e \in {x \in EdgeIds(g) : FromEdge(g, x) \in S}},
                 k - 1)

\* no edge lies on a directed cycle
IsAcyclic(g) == \A e \in EdgeIds(g) : FromEdge(g, e) \notin ReachIn(g, {ToEdge(g, e)}, g.n)

\* an acyclic digraph whose topological order is 2, 3, 1, 0; from source 3
\* vertex 2 is out of reach and 0 is reached first over 3->0, then over 1->0
AcyclicScenario ==
    Digraph(4, <<Edge(2, 3, 1), Edge(3, 1, -1), Edge(3, 0, 1), Edge(1, 0, 1)>>)

InitAcyclic ==
    /\ graph \in {g \in Digraphs((-MaxBfW)..MaxBfW) : IsAcyclic(g)}
                    \cup {ScenarioDigraph, AcyclicScenario}
    /\ source \in Vertices(graph)
    /\ sp = AcyclicNew(graph, source)
    /\ op = "new"
    /\ args = <<>>
    /\ ret = None
    /\ pqueue = Unused /\ uf = Unused /\ target = Unused
    /\ mst = Unused /\ ff = Unused

AcyclicOthers == <<ret, pqueue, uf, graph, source, target, mst, ff>>

\* line 25: the next vertex of the topological order; args is that vertex
AcyclicNextVertex ==
    /\ op # "done"
    /\ sp.todo = <<>>
    /\ sp.order # <<>>
    /\ sp' = [sp EXCEPT !.order = Tail(sp.order),
                        !.todo = Adjacents(graph, Head(sp.order))]
    /\ args' = <<Head(sp.order)>>
    /\ op' = "vertex"
    /\ UNCHANGED AcyclicOthers

\* lines 26-27: self._relax(edge) for the next edge of the vertex
AcyclicRelaxEdge ==
    /\ op # "done"
    /\ sp.todo # <<>>
    /\ sp' = [AcyclicRelax(graph, sp, Head(sp.todo)) EXCEPT !.todo = Tail(sp.todo)]
    /\ op' = "relax"
    /\ UNCHANGED <<args, AcyclicOthers>>

\* line 25: the topological order is exhausted, the constructor returns
AcyclicReturn ==
    /\ op # "done"
    /\ sp.todo = <<>>
    /\ sp.order = <<>>
    /\ op' = "done"
    /\ UNCHANGED <<sp, args, AcyclicOthers>>

NextAcyclic == AcyclicNextVertex \/ AcyclicRelaxEdge \/ AcyclicReturn

SpecAcyclic == InitAcyclic /\ [][NextAcyclic]_vars

\* C9: no edge is relaxed twice and at the end every edge has been relaxed;
\* while the edges of a vertex are relaxed the dist_to of that vertex is
\* already the weight of a lightest path to it (infinite when there is
\* none); at the end dist_to(v) is the weight of a lightest path for every
\* reachable v and infinite for every other v.
C9_AcyclicSinglePass ==
    /\ \A i, j \in 1..Len(sp.relaxed) : sp.relaxed[i] = sp.relaxed[j] => i = j
    /\ op \in {"vertex", "relax"} =>
           sp.dist_to[args[1]] = ShortestDist(graph, source)[args[1]]
    /\ op = "done" =>
           /\ {sp.relaxed[i] : i \in 1..Len(sp.relaxed)} = EdgeIds(graph)
           /\ \A v \in Vertices(graph) :
                  /\ Reachable(graph, source, v) =>
                         AcyclicDistTo(sp, v) = ShortestDist(graph, source)[v]
                  /\ ~Reachable(graph, source, v) => AcyclicDistTo(sp, v) = Inf

\* AcyclicScenario from source 3: the four edges are relaxed in the order of
\* the topological order, the distance of 0 is lowered twice, 2 stays out
\* of reach
C9_Witness ==
    /\ op = "done"
    /\ graph = AcyclicScenario /\ source = 3
    /\ sp.relaxed = <<1, 2, 3, 4>>
    /\ sp.edge_to[0] = 4
    /\ sp.dist_to = [v \in 0..3 |-> IF v = 1 THEN -1 ELSE IF v = 2 THEN Inf ELSE 0]

------------------------------------------------------------------------------
(* Specification SpecDijkstraAny: DijkstraSP(graph, source) on every        *)
(* digraph of at most MaxSignedE edges with weights -MaxBfW..MaxBfW,        *)
(* negative cycles included, and on ReinsertDigraph.  The constructor is one sequential     *)
(* run: a step that can be taken is taken.                                  *)

\* the model follows a construction until a distance is below -MaxDrop
MaxDrop == 2

\* at most MaxSignedE edges in the digraphs with weights of both signs
MaxSignedE == 2

SignedDigraphs(W) ==
    UNION {{Digraph(n, es) : es \in EdgeLists(n, W, MaxSignedE)} : n \in 1..MaxV}

DijkstraWithinBound(d) == \A v \in DOMAIN d.dist_to : d.dist_to[v] >= -MaxDrop

\* a digraph without negative cycle where vertex 1 has left the queue when
\* the edge 2->1 lowers its distance: 1 and then 3 are inserted again
ReinsertDigraph ==
    Digraph(4, <<Edge(0, 1, 0), Edge(0, 2, 1), Edge(1, 3, 0), Edge(2, 1, -2)>>)

\* the next call of the constructor on the queue raises: decrease_key with a
\* key that is not smaller, insert into a full queue, del_min of an empty one
DijkstraRaises(g, d) ==
    IF d.todo # <<>>
    THEN LET e == Head(d.todo)
             w == ToEdge(g, e)
             x == Add(Weight(g, e), d.dist_to[FromEdge(g, e)])
         IN  /\ DijkstraImproves(g, d, e)
             /\ IF PQContains(d.priority_queue, w)
                THEN PQDecreaseKeyRaises(d.priority_queue, w, x)
                ELSE PQInsertRaises(d.priority_queue)
    ELSE PQNonEmpty(d.priority_queue) /\ PQDelMinRaises(d.priority_queue)

InitDijkstraAny ==
    /\ graph \in SignedDigraphs((-MaxBfW)..MaxBfW) \cup {ReinsertDigraph}
    /\ source \in Vertices(graph)
    /\ sp = DijkstraNew(graph, source)
    /\ op = "new"
    /\ args = <<>>
    /\ ret = None
    /\ pqueue = Unused /\ uf = Unused /\ target = Unused
    /\ mst = Unused /\ ff = Unused

NextDijkstraAny == DijkstraWithinBound(sp) /\ NextDijkstra

SpecDijkstraAny ==
    InitDijkstraAny /\ [][NextDijkstraAny]_vars /\ WF_vars(NextDijkstraAny)

\* the absolute values of the weights of all the edges of g
TotalAbsWeight(g) ==
    SumSeq([e \in 1..Len(g.edges) |-> IF Weight(g, e) < 0 THEN -Weight(g, e)
                                                            ELSE Weight(g, e)])

QueueKeysAreDistances(d) ==
    \A v \in PQIndices(d.priority_queue) : d.priority_queue.keys[v] = d.dist_to[v]

\* what the step did to the queue, read from the queue before and after it:
\* a del_min took the minimum of a queue that held an entry; a relaxation
\* left the queue alone, or added the head w of its edge, which was not in
\* the queue, or gave w, which was in the queue, a strictly smaller key and
\* added nothing
QueueCallInPrecondition ==
    LET q == sp.priority_queue
        q2 == sp'.priority_queue
    IN  /\ op' = "del_min" =>
               /\ q.n >= 1
               /\ q2.n = q.n - 1
               /\ PQIndices(q2) = PQIndices(q) \ {PQMinIndex(q)}
        /\ op' = "relax" =>
               LET w == ToEdge(graph, Head(sp.todo))
               IN  \/ q2 = q
                   \/ /\ ~PQContains(q, w)
                      /\ q2.n = q.n + 1 /\ q2.n <= PQCapacity(q)
                      /\ PQIndices(q2) = PQIndices(q) \cup {w}
                   \/ /\ PQContains(q, w)
                      /\ q2.n = q.n
                      /\ PQIndices(q2) = PQIndices(q)
                      /\ q2.keys[w] < q.keys[w]

\* C30: on any digraph, weights of any sign, every call the constructor
\* makes on the queue is within its precondition (insert for a vertex that
\* is not in the queue, decrease_key for a vertex in the queue and with a
\* strictly smaller key, del_min on a queue that is not empty), and the key
\* of every queued vertex is its current dist_to.
C30_QueueCallsInPrecondition ==
    [][/\ ~DijkstraRaises(graph, sp)
       /\ QueueCallInPrecondition
       /\ QueueKeysAreDistances(sp) /\ QueueKeysAreDistances(sp')
      ]_vars

\* ReinsertDigraph: the relaxation of 2->1 has just inserted vertex 1 a
\* second time, with the key -1, after 1 and 3 had left the queue
C30_Witness ==
    /\ op = "relax"
    /\ graph = ReinsertDigraph /\ source = 0
    /\ sp.dist_to = [v \in 0..3 |-> IF v = 1 THEN -1 ELSE IF v = 2 THEN 1 ELSE 0]
    /\ PQIndices(sp.priority_queue) = {1}
    /\ sp.priority_queue.keys[1] = -1

------------------------------------------------------------------------------
(* Specification SpecCF: EdgeWeightedCycleFinder(graph) on every digraph of *)
(* the bounds (the weights play no part and are 0), then get_cycle().       *)
(* DirectedCycle is the same code on a digraph without weights.             *)

InitCF ==
    /\ graph \in Digraphs({0})
    /\ sp = CycleFinder(graph)
    /\ op = "new"
    /\ args = <<>>
    /\ ret = None
    /\ pqueue = Unused /\ uf = Unused /\ source = Unused /\ target = Unused
    /\ mst = Unused /\ ff = Unused

CallGetCycle ==
    /\ op = "new"
    /\ ret' = CFGetCycle(sp)
    /\ op' = "get_cycle"
    /\ UNCHANGED <<args, sp, graph, pqueue, uf, source, target, mst, ff>>

SpecCF == InitCF /\ [][CallGetCycle]_vars

\* every consecutive pair of the vertex list c is joined by an edge of g
IsWalk(g, c) ==
    \A i \in 1..(Len(c) - 1) :
        \E e \in EdgeIds(g) : FromEdge(g, e) = c[i] /\ ToEdge(g, e) = c[i + 1]

\* C26: get_cycle() returns None exactly when the digraph has no directed
\* cycle; otherwise the list returned is a directed cycle of the graph: its
\* first and last vertices are equal and every consecutive pair is joined
\* by an edge, so that every listed vertex lies on the cycle.
C26_GetCycleIsCycle ==
    op = "get_cycle" =>
        /\ ret = NoCycle <=> IsAcyclic(graph)
        /\ ret # NoCycle =>
               /\ Len(ret) >= 2
               /\ ret[1] = ret[Len(ret)]
               /\ IsWalk(graph, ret)

\* what get_cycle() does give: None exactly on the acyclic digraphs, and
\* otherwise a walk along edges that ends with a directed cycle: the last
\* vertex occurs earlier in the list, after a prefix that leads to it
GetCycleEndsInCycle ==
    op = "get_cycle" =>
        /\ ret = NoCycle <=> IsAcyclic(graph)
        /\ ret # NoCycle =>
               /\ Len(ret) >= 2
               /\ \E k \in 1..(Len(ret) - 1) : ret[k] = ret[Len(ret)]
               /\ IsWalk(graph, ret)

====
